---------------------------- MODULE Spec2Model ----------------------------
(***************************************************************************)
(* Model of moysklad_stat/101_roza_stat.py: the aggregation functions of   *)
(* DebugMoySkladClient and the /period conversation of the Telegram bot.   *)
(*                                                                         *)
(* Money is kept in integer minor units (kopecks): the source divides the  *)
(* remote's integer 'sum' by 100 and sums Decimals, which is exact.        *)
(* Counterparty ids are integers whose numeric order stands for the        *)
(* lexicographic order of the id strings.                                  *)
(***************************************************************************)
EXTENDS Integers, Sequences, FiniteSets, TLC

VARIABLES
    ordersRemote,    \* rows the remote returns for entity/customerorder
    retailRemote,    \* rows the remote returns for entity/retaildemand
    paymentsRemote,  \* rows the remote returns for entity/paymentin
    result,          \* frame of the latest aggregation call: op, return value, locals
    conv,            \* ConversationHandler state of each chat
    user_data,       \* context.user_data['period_start_date'] (or NoDate)
    padYear,         \* whether this build's strftime('%Y') zero-pads to 4 digits
    last,            \* the latest inbound event and what its handler did
    ADMIN_CHAT_ID,   \* os.getenv('ADMIN_CHAT_ID')
    bot_data,        \* context.bot_data['report_chats'] (or no such key)
    promised,        \* the chats that got the confirmation of /setreport
    job,             \* the latest /setreport or firing of the daily job
    tokens_file,     \* the content of USER_TOKENS_FILE
    procs,           \* the credential-store mutation each session runs
    done             \* the latest completed mutation of the credential store

vars == <<ordersRemote, retailRemote, paymentsRemote, result,
          conv, user_data, padYear, last,
          ADMIN_CHAT_ID, bot_data, promised, job,
          tokens_file, procs, done>>

storeVars == <<tokens_file, procs, done>>
jobVars == <<ADMIN_CHAT_ID, bot_data, promised, job, storeVars>>

aggVars  == <<ordersRemote, retailRemote, paymentsRemote, result>>
convVars == <<conv, user_data, padYear, last>>

-----------------------------------------------------------------------------
(* Bounds of the model *)

MaxOrders    == 3    \* length of a general customer-order list
MaxRetail    == 2    \* length of a retail-sale list
MaxPayments  == 3    \* length of a general payment list
MaxIrregular == 2    \* length of a list of irregular order rows
MaxRankRows  == 11   \* length of a one-order-per-counterparty list
NumChats     == 2    \* chats in which the same user talks to the bot
NumUsers     == 2    \* users of the credential store, one session each

(* Program constants *)

TOP_N_PERIOD == 10   \* sorted(...)[:10]
TOP_N_DAILY  == 3    \* sorted(...)[:3]
HTTP_OK      == 200

-----------------------------------------------------------------------------
(* Small helpers *)

Min(a, b) == IF a < b THEN a ELSE b

BSeq(S, n) == UNION {[1..k -> S] : k \in 0..n}

RECURSIVE GCD(_, _)
GCD(a, b) == IF b = 0 THEN a ELSE GCD(b, a % b)

RECURSIVE SumOf(_)
SumOf(s) == IF s = <<>> THEN 0 ELSE Head(s).sum + SumOf(Tail(s))

Range(s) == {s[i] : i \in 1..Len(s)}

-----------------------------------------------------------------------------
(* Values of the data source client *)

\* agent ids: '' (an entity without 'id'), real counterparties, placeholders
EmptyId  == 0
NoHrefId == 98       \* 'no_href'
NoAgentId == 99      \* 'no_agent'
RetailId == 97       \* 'retail_customer'

NoAgent  == "no_agent"     \* row without 'agent'
NoHref   == "no_href"      \* agent without meta.href
Unnamed  == "Bez imeni"     \* the placeholder name
Resolved == "name"         \* a name the remote returned
NotGiven == "Ne ukazan"     \* the placeholder of a missing field

None == [id |-> -1, name |-> "None"]   \* Python None in an 'agent' field

Decimal0 == [num |-> 0, den |-> 1]     \* Decimal('0')

\* total / count on Decimals, as an exact fraction in lowest terms
DecimalDiv(total, count) ==
    IF count = 0 THEN [num |-> 0, den |-> 0]    \* decimal.DivisionByZero is raised
    ELSE LET g == GCD(total, count)
         IN  [num |-> total \div g, den |-> count \div g]

\* agent_requests: the secondary requests the fetch issued
EmptyFetch == [count |-> 0, total |-> 0, data |-> <<>>, agent_requests |-> 0]

\* 'if row.get("sum")': a row whose sum is missing or 0 is skipped
HasSum(row) == row.sum # 0

\* agent_info of one customer-order row (secondary fetch of agent_href)
OrderAgentInfo(row) ==
    IF row.agent = NoAgent THEN [id |-> NoAgentId, name |-> Unnamed]
    ELSE IF row.agent = NoHref THEN [id |-> NoHrefId, name |-> Unnamed]
    ELSE IF row.fetch = HTTP_OK THEN [id |-> row.href, name |-> Resolved]
    ELSE [id |-> row.href, name |-> Unnamed]

\* a loop that gives up the whole batch when one secondary fetch fails
OrdersLoopFailsBatch(rows) ==
    LET kept == SelectSeq(rows, HasSum)
    IN  IF \E i \in 1..Len(kept) :
              kept[i].agent \notin {NoAgent, NoHref} /\ kept[i].fetch # HTTP_OK
        THEN <<>>
        ELSE [i \in 1..Len(kept) |-> [sum |-> kept[i].sum, agent |-> OrderAgentInfo(kept[i])]]

RECURSIVE OrdersLoop(_)
OrdersLoop(rows) ==
    IF rows = <<>> THEN <<>>
    ELSE LET row == Head(rows)
         IN  IF HasSum(row)
             THEN <<[sum |-> row.sum, agent |-> OrderAgentInfo(row)]>> \o OrdersLoop(Tail(rows))
             ELSE OrdersLoop(Tail(rows))

\* a fetch that reads the rows whatever the status is
get_customer_orders_data_any_status(status, rows) ==
    LET data == OrdersLoop(rows)
    IN  [count |-> Len(data), total |-> SumOf(data), data |-> data, agent_requests |-> 0]

\* requests.get(agent_href) is called for a row with a sum, an agent and an href
IssuesAgentRequest(row) == HasSum(row) /\ row.agent \notin {NoAgent, NoHref}

get_customer_orders_data(status, rows) ==
    IF status # HTTP_OK THEN EmptyFetch
    ELSE LET data == OrdersLoop(rows)
         IN  [count |-> Len(data), total |-> SumOf(data), data |-> data,
              agent_requests |-> Len(SelectSeq(rows, IssuesAgentRequest))]

RECURSIVE RetailLoop(_)
RetailLoop(rows) ==
    IF rows = <<>> THEN <<>>
    ELSE LET row == Head(rows)
         IN  IF HasSum(row)
             THEN <<[sum |-> row.sum, agent |-> [id |-> RetailId, name |-> "Roznichnyj klient"]]>>
                  \o RetailLoop(Tail(rows))
             ELSE RetailLoop(Tail(rows))

get_retail_sales_data(status, rows) ==
    IF status # HTTP_OK THEN EmptyFetch
    ELSE LET data == RetailLoop(rows)
         IN  [count |-> Len(data), total |-> SumOf(data), data |-> data,
              agent_requests |-> 0]

\* agent_info of one payment row: the expanded agent summary, or None
PaymentAgentInfo(row) ==
    IF row.agent = NoAgent THEN None
    ELSE [id |-> row.href, name |-> Resolved]

RECURSIVE PaymentsLoop(_)
PaymentsLoop(rows) ==
    IF rows = <<>> THEN <<>>
    ELSE LET row == Head(rows)
         IN  IF HasSum(row)
             THEN <<[sum |-> row.sum, agent |-> PaymentAgentInfo(row),
                     payment_type |-> row.paymentType]>> \o PaymentsLoop(Tail(rows))
             ELSE PaymentsLoop(Tail(rows))

get_incoming_payments_data(status, rows) ==
    IF status # HTTP_OK THEN EmptyFetch
    ELSE LET data == PaymentsLoop(rows)
         IN  [count |-> Len(data), total |-> SumOf(data), data |-> data,
              agent_requests |-> 0]

-----------------------------------------------------------------------------
(* Aggregation engine *)

\* index of the entry of agent_id in the grouping dict, 0 when absent
IndexOf(customers, agent_id) ==
    IF \E i \in 1..Len(customers) : customers[i].id = agent_id
    THEN CHOOSE i \in 1..Len(customers) : customers[i].id = agent_id
    ELSE 0

\* The grouping loop over orders_data / payments_data. The dict keeps insertion
\* order, so it is a sequence in order of first occurrence; 'orders' is the
\* per-counterparty counter ('payments' in the payment reports).
RECURSIVE GroupLoop(_, _)
GroupLoop(data, customers) ==
    IF data = <<>> THEN customers
    ELSE LET order == Head(data)
             k     == IndexOf(customers, order.agent.id)
         IN  IF order.agent = None THEN GroupLoop(Tail(data), customers)
             ELSE IF k = 0
             THEN GroupLoop(Tail(data),
                            Append(customers, [id |-> order.agent.id, name |-> order.agent.name,
                                               orders |-> 1, total |-> order.sum]))
             ELSE GroupLoop(Tail(data),
                            [customers EXCEPT ![k].orders = @ + 1, ![k].total = @ + order.sum])

\* a grouping that leaves out the orders without a resolvable counterparty
GroupCustomersResolvedOnly(data) ==
    GroupLoop(SelectSeq(data, LAMBDA order : order.agent.id \notin {NoAgentId, NoHrefId}), <<>>)

GroupCustomers(data) == GroupLoop(data, <<>>)

\* a sort that puts an element in front of those with the same total
InsertPosTiesFirst(x, acc) ==
    IF \E i \in 1..Len(acc) : acc[i].total <= x.total
    THEN CHOOSE i \in 1..Len(acc) :
            /\ acc[i].total <= x.total
            /\ \A j \in 1..(i - 1) : acc[j].total > x.total
    ELSE Len(acc) + 1

\* position at which a stable descending sort places x among the already
\* placed elements: behind every element whose total is >= x.total
InsertPos(x, acc) ==
    IF \E i \in 1..Len(acc) : acc[i].total < x.total
    THEN CHOOSE i \in 1..Len(acc) :
            /\ acc[i].total < x.total
            /\ \A j \in 1..(i - 1) : acc[j].total >= x.total
    ELSE Len(acc) + 1

RECURSIVE SortLoop(_, _)
SortLoop(s, acc) ==
    IF s = <<>> THEN acc
    ELSE LET x == Head(s)
             p == InsertPos(x, acc)
         IN  SortLoop(Tail(s), SubSeq(acc, 1, p - 1) \o <<x>> \o SubSeq(acc, p, Len(acc)))

\* sorted(all_customers, key=lambda x: x['total'], reverse=True): stable
SortedByTotal(all_customers) == SortLoop(all_customers, <<>>)

\* the slice without the sort
TopUnsorted(all_customers, n) == SubSeq(all_customers, 1, Min(n, Len(all_customers)))

\* sorted(...)[:n]
Top(all_customers, n) ==
    LET s == SortedByTotal(all_customers)
    IN  SubSeq(s, 1, Min(n, Len(s)))

ZeroDivisionError == [num |-> 0, den |-> 0]

\* a guard that is off by one
AverageAboveOne(total, count) ==
    IF count > 1 THEN DecimalDiv(total, count) ELSE Decimal0

\* total / count if count > 0 else Decimal('0')
Average(total, count) ==
    IF count > 0 THEN DecimalDiv(total, count) ELSE Decimal0

total_count(orders_count, retail_count) == orders_count + retail_count

total_amount_orders_only(orders_total, retail_total) == orders_total

total_amount(orders_total, retail_total) == orders_total + retail_total

IsNew(cust) == cust.orders = 1

IsReturningAboveTwo(cust) == cust.orders > 2

IsReturning(cust) == cust.orders > 1

analysed_all_sales(orders_data, retail_data) == orders_data \o retail_data

\* the records the grouping loop runs over: 'for i, order in enumerate(orders_data)'
analysed_orders(orders_data, retail_data) == orders_data

ZeroPart == [count |-> 0, total |-> 0, avg_order |-> Decimal0]

SalesFallback ==
    [customer_orders |-> ZeroPart, retail |-> ZeroPart, total_sales |-> ZeroPart,
     customer_count |-> 0, new_customers |-> 0, returning_customers |-> 0,
     top_customers |-> <<>>, new_customers_list |-> <<>>,
     returning_customers_list |-> <<>>]

\* The frame of one call: the statuses the list requests got, the fetched
\* lists, the grouping dict and the value returned. so, sr are the statuses of
\* the two list requests (0: the request raised); a list the call does not
\* request has HTTP_OK.
get_sales_stats_with_retail(so, orows, sr, rrows) ==
    LET o == get_customer_orders_data(so, orows)
        r == get_retail_sales_data(sr, rrows)
        tc == total_count(o.count, r.count)
        ta == total_amount(o.total, r.total)
        customers == GroupCustomers(analysed_orders(o.data, r.data))
        avg_order  == Average(o.total, o.count)
        avg_retail == Average(r.total, r.count)
        avg_total  == Average(ta, tc)
        raised == ZeroDivisionError \in {avg_order, avg_retail, avg_total}
    IN  [op |-> "get_sales_stats_with_retail",
         statuses |-> [orders |-> so, retail |-> sr, payments |-> HTTP_OK],
         agent_requests |-> o.agent_requests,
         orders_data |-> o.data, retail_data |-> r.data, payments_data |-> <<>>,
         customers |-> customers, raised |-> raised,
         ret |-> IF raised THEN SalesFallback ELSE
            [customer_orders |-> [count |-> o.count, total |-> o.total, avg_order |-> avg_order],
             retail |-> [count |-> r.count, total |-> r.total, avg_order |-> avg_retail],
             total_sales |-> [count |-> tc, total |-> ta, avg_order |-> avg_total],
             customer_count |-> Len(customers),
             new_customers |-> Cardinality({i \in 1..Len(customers) : IsNew(customers[i])}),
             returning_customers |->
                 Cardinality({i \in 1..Len(customers) : IsReturning(customers[i])}),
             top_customers |-> Top(customers, TOP_N_PERIOD),
             new_customers_list |-> SelectSeq(customers, IsNew),
             returning_customers_list |-> SelectSeq(customers, IsReturning)]]

total_sales_count(orders_count, retail_count) == orders_count + retail_count

total_sales_amount(orders_total, retail_total) == orders_total + retail_total

DailyFallback ==
    [customer_orders |-> ZeroPart, retail |-> ZeroPart, total_sales |-> ZeroPart,
     payments |-> [count |-> 0, total |-> 0, avg_payment |-> Decimal0],
     top_customers |-> <<>>, top_payers |-> <<>>,
     unique_customers |-> 0, unique_payers |-> 0]

\* The three lists are fetched for [today 00:00:00, now].
get_daily_summary(so, orows, sr, rrows, sp, prows) ==
    LET o == get_customer_orders_data(so, orows)
        r == get_retail_sales_data(sr, rrows)
        p == get_incoming_payments_data(sp, prows)
        tc == total_sales_count(o.count, r.count)
        ta == total_sales_amount(o.total, r.total)
        customers == GroupCustomers(o.data)
        payers    == GroupCustomers(p.data)
        avg_order       == Average(o.total, o.count)
        avg_retail      == Average(r.total, r.count)
        avg_total_sales == Average(ta, tc)
        avg_payment     == Average(p.total, p.count)
        raised == ZeroDivisionError \in {avg_order, avg_retail, avg_total_sales, avg_payment}
    IN  [op |-> "get_daily_summary",
         statuses |-> [orders |-> so, retail |-> sr, payments |-> sp],
         agent_requests |-> o.agent_requests,
         orders_data |-> o.data, retail_data |-> r.data, payments_data |-> p.data,
         customers |-> customers, payers |-> payers, raised |-> raised,
         ret |-> IF raised THEN DailyFallback ELSE
            [customer_orders |-> [count |-> o.count, total |-> o.total, avg_order |-> avg_order],
             retail |-> [count |-> r.count, total |-> r.total, avg_order |-> avg_retail],
             total_sales |-> [count |-> tc, total |-> ta, avg_order |-> avg_total_sales],
             payments |-> [count |-> p.count, total |-> p.total, avg_payment |-> avg_payment],
             top_customers |-> Top(customers, TOP_N_DAILY),
             top_payers |-> Top(payers, TOP_N_DAILY),
             unique_customers |-> Len(customers),
             unique_payers |-> Len(payers)]]

\* payment_types[payment_type] += payment['sum'] over a defaultdict, then the
\* per-label count 'sum(1 for p in payments if p.get("payment_type") == k)'
RECURSIVE TypesLoop(_, _)
TypesLoop(payments, types) ==
    IF payments = <<>> THEN types
    ELSE LET payment == Head(payments)
             has == \E i \in 1..Len(types) : types[i].type = payment.payment_type
             k   == CHOOSE i \in 1..Len(types) : types[i].type = payment.payment_type
         IN  IF has
             THEN TypesLoop(Tail(payments), [types EXCEPT ![k].total = @ + payment.sum])
             ELSE TypesLoop(Tail(payments),
                            Append(types, [type |-> payment.payment_type, total |-> payment.sum]))

\* the per-label list left in the order of first occurrence
payment_types_unsorted(payments) ==
    LET types == TypesLoop(payments, <<>>)
    IN  [i \in 1..Len(types) |->
            [type |-> types[i].type, total |-> types[i].total,
             count |-> Cardinality({j \in 1..Len(payments) :
                                       payments[j].payment_type = types[i].type})]]

payment_types_stats(payments) ==
    LET types == TypesLoop(payments, <<>>)
        stats == [i \in 1..Len(types) |->
                    [type |-> types[i].type, total |-> types[i].total,
                     count |-> Cardinality({j \in 1..Len(payments) :
                                               payments[j].payment_type = types[i].type})]]
    IN  SortedByTotal(stats)

get_incoming_payments_stats(sp, prows) ==
    LET p == get_incoming_payments_data(sp, prows)
        customers == GroupCustomers(p.data)
    IN  [total_payments |-> p.count,
         total_amount |-> p.total,
         customer_count |-> Len(customers),
         top_payers |-> Top(customers, TOP_N_PERIOD),
         payment_types |-> payment_types_stats(p.data),
         payments_data |-> p.data]

\* The part of the payment report that computes: the stats and avg_payment.
send_incoming_payments(sp, prows) ==
    LET stats == get_incoming_payments_stats(sp, prows)
        avg_payment == Average(stats.total_amount, stats.total_payments)
    IN  [op |-> "send_incoming_payments",
         statuses |-> [orders |-> HTTP_OK, retail |-> HTTP_OK, payments |-> sp],
         orders_data |-> <<>>, retail_data |-> <<>>, payments_data |-> stats.payments_data,
         customers |-> GroupCustomers(stats.payments_data),
         raised |-> avg_payment = ZeroDivisionError,
         avg_payment |-> avg_payment,
         ret |-> stats]

-----------------------------------------------------------------------------
(* Dates and their textual forms *)

\* A text message that looks like a date: three numeric fields joined by sep,
\* in the order ord, the year written with ylen digits. Junk is any other text.
DateText(sep, ord, d, m, y, ylen) ==
    [kind |-> "date", sep |-> sep, ord |-> ord, d |-> d, m |-> m, y |-> y, ylen |-> ylen]

Junk   == [kind |-> "junk", sep |-> "", ord |-> "", d |-> 0, m |-> 0, y |-> 0, ylen |-> 0]
NoDate == [kind |-> "none", sep |-> "", ord |-> "", d |-> 0, m |-> 0, y |-> 0, ylen |-> 0]

NoneDate == [y |-> 0, m |-> 0, d |-> 0]     \* no datetime object

\* date_formats = ['%d.%m.%Y', '%d.%m.%y', '%d/%m/%Y', '%Y-%m-%d', '%d-%m-%Y']
date_formats ==
    << [sep |-> ".", ord |-> "dmy", ylen |-> 4],
       [sep |-> ".", ord |-> "dmy", ylen |-> 2],
       [sep |-> "/", ord |-> "dmy", ylen |-> 4],
       [sep |-> "-", ord |-> "ymd", ylen |-> 4],
       [sep |-> "-", ord |-> "dmy", ylen |-> 4] >>

IsLeap(y) == (y % 4 = 0 /\ y % 100 # 0) \/ y % 400 = 0

DaysInMonth(y, m) ==
    IF m = 2 THEN (IF IsLeap(y) THEN 29 ELSE 28)
    ELSE IF m \in {4, 6, 9, 11} THEN 30 ELSE 31

\* %y: 00..68 are 2000..2068, 69..99 are 1969..1999
YearOf(text) ==
    IF text.ylen = 2 THEN (IF text.y <= 68 THEN 2000 + text.y ELSE 1900 + text.y)
    ELSE text.y

\* datetime.strptime(text, fmt): the date, or NoneDate for ValueError. %Y takes
\* exactly four digits, %y exactly two; the date must exist in the calendar.
strptime(text, fmt) ==
    IF /\ text.kind = "date"
       /\ text.sep = fmt.sep /\ text.ord = fmt.ord /\ text.ylen = fmt.ylen
       /\ YearOf(text) >= 1
       /\ text.m \in 1..12
       /\ text.d \in 1..DaysInMonth(YearOf(text), text.m)
    THEN [y |-> YearOf(text), m |-> text.m, d |-> text.d]
    ELSE NoneDate

\* the 'for fmt in date_formats' loop: the first format that parses wins
RECURSIVE ParseLoop(_, _)
ParseLoop(user_input, i) ==
    IF i > Len(date_formats) THEN NoneDate
    ELSE IF strptime(user_input, date_formats[i]) # NoneDate
         THEN strptime(user_input, date_formats[i])
         ELSE ParseLoop(user_input, i + 1)

\* a parser that knows the first format only
ParseFirstFormatOnly(user_input) == strptime(user_input, date_formats[1])

ParseDate(user_input) == ParseLoop(user_input, 1)

NumDigits(n) == IF n < 10 THEN 1 ELSE IF n < 100 THEN 2 ELSE IF n < 1000 THEN 3 ELSE 4

\* date_obj.strftime('%d.%m.%Y'): the C library decides whether a year below
\* 1000 is zero-padded to four digits (pad) or written as it is.
strftime(date_obj, pad) ==
    DateText(".", "dmy", date_obj.d, date_obj.m, date_obj.y,
             IF pad THEN 4 ELSE NumDigits(date_obj.y))

\* end_date_obj < start_date_obj on datetimes at midnight
Before(a, b) ==
    \/ a.y < b.y
    \/ a.y = b.y /\ a.m < b.m
    \/ a.y = b.y /\ a.m = b.m /\ a.d < b.d

\* strftime('%Y-%m-%d 00:00:00') and strftime('%Y-%m-%d 23:59:59')
start_date_api(date_obj) == [y |-> date_obj.y, m |-> date_obj.m, d |-> date_obj.d,
                             time |-> "00:00:00"]

end_date_api(date_obj) == [y |-> date_obj.y, m |-> date_obj.m, d |-> date_obj.d,
                           time |-> "23:59:59"]

-----------------------------------------------------------------------------
(* The period resolver *)

\* datetime.now() is a record [y, m, d, secs], secs the second of the day.
\* strftime('%H:%M:%S') of the clock readings the model draws
TimeText(secs) ==
    CASE secs = 0     -> "00:00:00"
      [] secs = 1     -> "00:00:01"
      [] secs = 45296 -> "12:34:56"
      [] secs = 86399 -> "23:59:59"

\* strftime('%Y-%m-%d %H:%M:%S')
strftime_api(dt) == [y |-> dt.y, m |-> dt.m, d |-> dt.d, time |-> TimeText(dt.secs)]

\* days of the year before the first of month m
RECURSIVE DaysBeforeMonth(_, _)
DaysBeforeMonth(y, m) ==
    IF m = 1 THEN 0 ELSE DaysBeforeMonth(y, m - 1) + DaysInMonth(y, m - 1)

\* date.toordinal(): 1 for 0001-01-01
toordinal(dt) ==
    LET y1 == dt.y - 1
    IN  y1 * 365 + (y1 \div 4) - (y1 \div 100) + (y1 \div 400)
        + DaysBeforeMonth(dt.y, dt.m) + dt.d

\* a week that starts on Sunday
weekday_sunday_first(dt) == toordinal(dt) % 7

\* datetime.weekday(): Monday is 0
weekday(dt) == (toordinal(dt) + 6) % 7

PrevDay(dt) ==
    IF dt.d > 1 THEN [dt EXCEPT !.d = @ - 1]
    ELSE IF dt.m > 1 THEN [dt EXCEPT !.m = @ - 1, !.d = DaysInMonth(dt.y, dt.m - 1)]
    ELSE [dt EXCEPT !.y = @ - 1, !.m = 12, !.d = 31]

\* dt - timedelta(days=k)
RECURSIVE MinusDays(_, _)
MinusDays(dt, k) == IF k = 0 THEN dt ELSE MinusDays(PrevDay(dt), k - 1)

\* dt.replace(hour=0, minute=0, second=0, microsecond=0)
Midnight(dt) == [dt EXCEPT !.secs = 0]

\* get_period_dates(period) at the moment now: (start_date, end_date) as texts
get_period_dates(period, now) ==
    LET start_date ==
            IF period = "today" THEN Midnight(now)
            ELSE IF period = "week" THEN Midnight(MinusDays(now, weekday(now)))
            ELSE IF period = "month" THEN Midnight([now EXCEPT !.d = 1])
            ELSE MinusDays(now, 30)
        end_date == now
    IN  [start |-> strftime_api(start_date), end |-> strftime_api(end_date)]

\* The 'filter' parameter of the list requests, as the pair of timestamps of
\* 'moment>=<from>;moment<=<to>'. start_date and end_date are the texts the
\* fetch was given ('%Y-%m-%d %H:%M:%S').

\* start_date.split()[0] + ' 00:00:00' and end_date.split()[0] + ' 23:59:59'
WholeDaysFilter(start_date, end_date) ==
    [from |-> [start_date EXCEPT !.time = "00:00:00"],
     to   |-> [end_date EXCEPT !.time = "23:59:59"]]

\* get_customer_orders_data: filter_params['filter']
orders_filter(start_date, end_date) == WholeDaysFilter(start_date, end_date)

\* get_retail_sales_data: filter_params['filter']
retail_filter(start_date, end_date) == WholeDaysFilter(start_date, end_date)

\* get_incoming_payments_data: filter_params['filter']
payments_filter(start_date, end_date) == [from |-> start_date, to |-> end_date]

-----------------------------------------------------------------------------
(* The /period conversation *)

PERIOD_START_DATE == 0
PERIOD_END_DATE   == 1
END               == -1     \* ConversationHandler.END: no conversation is active

MAX_SENDS == 5              \* send attempts one update can cause, error_handler included

NoApi    == [y |-> 0, m |-> 0, d |-> 0, time |-> ""]
NoReport == [start |-> NoApi, end |-> NoApi]

\* What a handler did: the state it returned (unless it raised), user_data after it,
\* the messages delivered, the number of sends attempted, whether one of them
\* failed, and the range it passed to get_sales_stats_with_retail.
Out(ret, ud, msgs, attempts, failed, rep) ==
    [ret |-> ret, raised |-> FALSE, user_data |-> ud, msgs |-> msgs,
     attempts |-> attempts, failed |-> failed, report |-> rep]

\* The handler raised: it returns no state and the conversation keeps its own.
Raise(ud, msgs, attempts, failed, rep) ==
    [ret |-> END, raised |-> TRUE, user_data |-> ud, msgs |-> msgs,
     attempts |-> attempts, failed |-> failed, report |-> rep]

\* 'except Exception' of handle_start_date / handle_end_date: the error reply
\* is send attempt k; when it fails too, the exception leaves the handler.
ExceptReply(net, k, state, ud, msgs, rep) ==
    IF net[k] THEN Out(state, ud, Append(msgs, "date_error"), k, TRUE, rep)
    ELSE Raise(ud, msgs, k, TRUE, rep)

\* period_command: one prompt, then PERIOD_START_DATE
period_command(ud, net) ==
    IF net[1] THEN Out(PERIOD_START_DATE, ud, <<"prompt">>, 1, FALSE, NoReport)
    ELSE Raise(ud, <<>>, 1, TRUE, NoReport)

handle_start_date(ud, user_input, net, pad) ==
    LET date_obj == ParseDate(user_input)
        date_str == strftime(date_obj, pad)
    IN  IF date_obj = NoneDate
        THEN IF net[1]
             THEN Out(PERIOD_START_DATE, ud, <<"bad_format">>, 1, FALSE, NoReport)
             ELSE ExceptReply(net, 2, PERIOD_START_DATE, ud, <<>>, NoReport)
        ELSE IF net[1]
             THEN Out(PERIOD_END_DATE, date_str, <<"start_accepted">>, 1, FALSE, NoReport)
             ELSE ExceptReply(net, 2, PERIOD_START_DATE, date_str, <<>>, NoReport)

\* a cancel that leaves user_data as it is
cancel_period_keeps_date(ud, has_message, net) ==
    IF ~has_message THEN Raise(ud, <<>>, 0, FALSE, NoReport)
    ELSE IF net[1] THEN Out(END, ud, <<"cancelled">>, 1, FALSE, NoReport)
    ELSE Raise(ud, <<>>, 1, TRUE, NoReport)

\* has_message: the update carries update.message (a command), not a callback query
cancel_period(ud, has_message, net) ==
    IF ~has_message THEN Raise(NoDate, <<>>, 0, FALSE, NoReport)
    ELSE IF net[1] THEN Out(END, NoDate, <<"cancelled">>, 1, FALSE, NoReport)
    ELSE Raise(NoDate, <<>>, 1, TRUE, NoReport)

\* send_period_statistics after the loading message (attempt 1): the report is
\* attempt 2, its own error reply attempt 3; an exception of that reply leaves it.
send_period_statistics(net, rep) ==
    IF net[2] THEN Out(END, NoDate, <<"loading", "report">>, 2, FALSE, rep)
    ELSE IF net[3] THEN Out(END, NoDate, <<"loading", "stats_error">>, 3, TRUE, rep)
    ELSE ExceptReply(net, 4, PERIOD_END_DATE, NoDate, <<"loading">>, rep)

\* an end-date step that completes the flow without deleting the start date
handle_end_date_keeps_date(ud, user_input, net, pad) ==
    LET end_date_obj   == ParseDate(user_input)
        start_date_obj == strptime(ud, date_formats[1])
    IN  IF \/ end_date_obj = NoneDate \/ ud = NoDate \/ start_date_obj = NoneDate
           \/ Before(end_date_obj, start_date_obj) \/ ~net[1] \/ ~net[2]
        THEN Out(PERIOD_END_DATE, ud, <<"date_error">>, 1, TRUE, NoReport)
        ELSE Out(END, ud, <<"loading", "report">>, 2, FALSE,
                 [start |-> start_date_api(start_date_obj), end |-> end_date_api(end_date_obj)])

handle_end_date(ud, user_input, net, pad) ==
    LET end_date_obj   == ParseDate(user_input)
        start_date_str == ud
        start_date_obj == strptime(start_date_str, date_formats[1])
        rep == [start |-> start_date_api(start_date_obj), end |-> end_date_api(end_date_obj)]
    IN  IF end_date_obj = NoneDate
        THEN IF net[1]
             THEN Out(PERIOD_END_DATE, ud, <<"bad_format">>, 1, FALSE, NoReport)
             ELSE ExceptReply(net, 2, PERIOD_END_DATE, ud, <<>>, NoReport)
        ELSE IF start_date_str = NoDate
        THEN IF net[1]
             THEN Out(END, ud, <<"start_not_found">>, 1, FALSE, NoReport)
             ELSE ExceptReply(net, 2, PERIOD_END_DATE, ud, <<>>, NoReport)
        ELSE IF start_date_obj = NoneDate      \* strptime raises ValueError
        THEN IF net[1]
             THEN Out(PERIOD_END_DATE, ud, <<"date_error">>, 1, FALSE, NoReport)
             ELSE Raise(ud, <<>>, 1, TRUE, NoReport)
        ELSE IF Before(end_date_obj, start_date_obj)
        THEN IF net[1]
             THEN Out(PERIOD_END_DATE, ud, <<"end_before_start">>, 1, FALSE, NoReport)
             ELSE ExceptReply(net, 2, PERIOD_END_DATE, ud, <<>>, NoReport)
        ELSE IF net[1]                          \* the loading message
             THEN send_period_statistics(net, rep)
             ELSE ExceptReply(net, 2, PERIOD_END_DATE, NoDate, <<>>, NoReport)

-----------------------------------------------------------------------------
(* The report commands and the button handler *)

\* A callback payload, split at '_': the words and, behind them, the display
\* dates (none or two). 'customers_custom_01.01.2024_31.01.2024' has the words
\* customers, custom and two dates.
Payload(words, dates) == [words |-> words, dates |-> dates]

NoPayload == Payload(<<>>, <<>>)

\* query.data == 'a_b'
IsData(payload, words) == payload.dates = <<>> /\ payload.words = words

\* query.data.startswith('a_b_')
StartsWith(payload, prefix) ==
    /\ Len(payload.words) >= Len(prefix)
    /\ SubSeq(payload.words, 1, Len(prefix)) = prefix
    /\ Len(payload.words) + Len(payload.dates) > Len(prefix)

\* len(query.data.split('_'))
NumParts(payload) == Len(payload.words) + Len(payload.dates)

\* the branch of the if / elif chain of button_handler that takes the payload
ButtonBranch(payload) ==
    IF IsData(payload, <<"main", "menu">>) THEN "main_menu"
    ELSE IF IsData(payload, <<"period", "menu">>) THEN "period_menu"
    ELSE IF IsData(payload, <<"enter", "period">>) THEN "enter_period"
    ELSE IF IsData(payload, <<"quick", "periods">>) THEN "quick_periods"
    ELSE IF StartsWith(payload, <<"quick", "period">>) THEN "quick_period_"
    ELSE IF StartsWith(payload, <<"period", "custom">>) THEN "period_custom_"
    ELSE IF IsData(payload, <<"customers", "menu">>) THEN "customers_menu"
    ELSE IF IsData(payload, <<"payments", "menu">>) THEN "payments_menu"
    ELSE IF IsData(payload, <<"daily", "summary">>) THEN "daily_summary"
    ELSE IF \E w \in {"today", "week", "month"} : IsData(payload, <<w>>) THEN "period"
    ELSE IF IsData(payload, <<"top">>) \/ IsData(payload, <<"top", "month">>) THEN "top_month"
    ELSE IF \E w \in {"today", "week", "month"} : IsData(payload, <<"payments", w>>)
         THEN "payments_period"
    ELSE IF StartsWith(payload, <<"payments">>) THEN "payments_"
    ELSE IF \E w \in {"today", "week", "month"} : IsData(payload, <<"customers", w>>)
         THEN "customers_period"
    ELSE IF StartsWith(payload, <<"customers">>) THEN "customers_"
    ELSE IF StartsWith(payload, <<"top">>) THEN "top_"
    ELSE IF StartsWith(payload, <<"customers", "custom">>) THEN "customers_custom_"
    ELSE IF StartsWith(payload, <<"top", "custom">>) THEN "top_custom_"
    ELSE IF StartsWith(payload, <<"payments", "custom">>) THEN "payments_custom_"
    ELSE "unknown"

\* the range of the two display dates: strptime(..., '%d.%m.%Y'), then
\* strftime('%Y-%m-%d %H:%M:%S') and strftime('%Y-%m-%d 23:59:59')
DisplayRange(dates) ==
    [start |-> start_date_api(strptime(dates[1], date_formats[1])),
     end   |-> end_date_api(strptime(dates[2], date_formats[1]))]

\* What the branch does: kind is "report" (a report producer is called, after
\* the loading text when loading is TRUE), "menu", "unknown" or "nothing" (the
\* branch has no statement to run); period is the keyword given to
\* get_period_dates, dated tells that the range comes from the payload's dates.
ButtonPlan(payload) ==
    LET branch == ButtonBranch(payload)
        w      == payload.words
        Keyword(producer, period, loading) ==
            [kind |-> "report", producer |-> producer, loading |-> loading,
             dated |-> FALSE, period |-> period]
        Dated(producer) ==
            IF NumParts(payload) >= 4
            THEN [kind |-> "report", producer |-> producer, loading |-> TRUE,
                  dated |-> TRUE, period |-> ""]
            ELSE [kind |-> "nothing", producer |-> "none", loading |-> FALSE,
                  dated |-> FALSE, period |-> ""]
        Other(kind) ==
            [kind |-> kind, producer |-> "none", loading |-> FALSE,
             dated |-> FALSE, period |-> ""]
    IN  IF branch \in {"quick_period_", "period_custom_"} THEN Dated("send_period_statistics")
        ELSE IF branch = "daily_summary" THEN Keyword("send_daily_summary", "today", FALSE)
        ELSE IF branch = "period" THEN Keyword("send_statistics", w[1], TRUE)
        ELSE IF branch = "top_month" THEN Keyword("send_top_customers", "month", TRUE)
        ELSE IF branch = "payments_period" THEN Keyword("send_incoming_payments", w[2], TRUE)
        ELSE IF branch = "payments_"
             THEN IF StartsWith(payload, <<"payments", "top">>)
                  THEN Keyword("send_incoming_payments",
                               IF Len(w) > 2 THEN w[3] ELSE "month", TRUE)
                  ELSE Keyword("send_incoming_payments", w[2], TRUE)
        ELSE IF branch = "customers_period" THEN Keyword("send_customers_details", w[2], TRUE)
        ELSE IF branch = "customers_" THEN Keyword("send_customers_details", w[2], TRUE)
        ELSE IF branch = "top_" THEN Keyword("send_top_customers", w[2], TRUE)
        ELSE IF branch = "customers_custom_" THEN Dated("customers_custom_period")
        ELSE IF branch = "top_custom_" THEN Dated("send_top_customers_custom")
        ELSE IF branch = "payments_custom_" THEN Dated("send_payments_custom_period")
        ELSE IF branch = "unknown" THEN Other("unknown")
        ELSE Other("menu")

\* A report producer called with update.message: reply_text(report); in its
\* 'except' reply_text(error), whose exception leaves the handler.
ReportToMessage(ud, net, rep) ==
    IF net[1] THEN Out(END, ud, <<"report">>, 1, FALSE, rep)
    ELSE IF net[2] THEN Out(END, ud, <<"stats_error">>, 2, TRUE, rep)
    ELSE Raise(ud, <<>>, 2, TRUE, rep)

\* 'except Exception' of button_handler: edit_message_text(error) is attempt k,
\* reply_text(error) attempt k + 1, and a failure of that one is passed over
ButtonExcept(ud, net, k, msgs, rep) ==
    IF net[k] THEN Out(END, ud, Append(msgs, "button_error"), k, TRUE, rep)
    ELSE IF net[k + 1] THEN Out(END, ud, Append(msgs, "button_error"), k + 1, TRUE, rep)
    ELSE Out(END, ud, msgs, k + 1, TRUE, rep)

\* a producer that goes on to its error text after the report was delivered
ReportToQueryThenError(ud, net, k, msgs, rep) ==
    IF net[k] /\ net[k + 1]
    THEN Out(END, ud, msgs \o <<"report", "stats_error">>, k + 1, TRUE, rep)
    ELSE IF net[k] THEN Out(END, ud, Append(msgs, "report"), k + 1, TRUE, rep)
    ELSE IF net[k + 1] THEN Out(END, ud, Append(msgs, "stats_error"), k + 1, TRUE, rep)
    ELSE ButtonExcept(ud, net, k + 2, msgs, rep)

\* A report producer called with the CallbackQuery: edit_message_text(report)
\* is attempt k; in its 'except' edit_message_text(error) is attempt k + 1, and
\* when that fails too the exception reaches button_handler.
ReportToQuery(ud, net, k, msgs, rep) ==
    IF net[k] THEN Out(END, ud, Append(msgs, "report"), k, FALSE, rep)
    ELSE IF net[k + 1] THEN Out(END, ud, Append(msgs, "stats_error"), k + 1, TRUE, rep)
    ELSE ButtonExcept(ud, net, k + 2, msgs, rep)

\* the period keyword of a report command; /daily reports [today 00:00:00, now]
CommandPeriod(command) ==
    IF command \in {"today", "daily", "payments_today"} THEN "today"
    ELSE IF command \in {"week", "payments_week"} THEN "week"
    ELSE "month"

CommandProducer(command) ==
    IF command \in {"today", "week", "month"} THEN "send_statistics"
    ELSE IF command = "top" THEN "send_top_customers"
    ELSE IF command = "daily" THEN "send_daily_summary"
    ELSE "send_incoming_payments"

\* today_command, week_command, ..., payments_month_command
report_command(ud, command, net, now) ==
    ReportToMessage(ud, net, get_period_dates(CommandPeriod(command), now))

\* answered: query.answer() did not fail with 'Query is too old'
button_handler(ud, payload, answered, net, now) ==
    LET plan == ButtonPlan(payload)
        rep  == IF plan.dated THEN DisplayRange(payload.dates)
                ELSE get_period_dates(plan.period, now)
        bad_dates == plan.dated /\ plan.producer = "send_period_statistics"
                     /\ \E i \in 1..2 : strptime(payload.dates[i], date_formats[1]) = NoneDate
    IN  IF ~answered \/ plan.kind = "nothing" THEN Out(END, ud, <<>>, 0, FALSE, NoReport)
        ELSE IF plan.kind \in {"unknown", "menu"}
        THEN IF net[1] THEN Out(END, ud, <<plan.kind>>, 1, FALSE, NoReport)
             ELSE ButtonExcept(ud, net, 2, <<>>, NoReport)
        ELSE IF bad_dates THEN ButtonExcept(ud, net, 1, <<>>, NoReport)
        ELSE IF ~plan.loading THEN ReportToQuery(ud, net, 1, <<>>, rep)
        ELSE IF net[1] THEN ReportToQuery(ud, net, 2, <<"loading">>, rep)
        ELSE ButtonExcept(ud, net, 2, <<>>, NoReport)

-----------------------------------------------------------------------------
(* Inputs *)

Chats == 1..NumChats

Statuses == {HTTP_OK, 500, 0}       \* 0: requests.get raised (timeout, connection)

\* the statuses of the list requests of one call: the requests that fail during
\* one call fail in the same way
FetchStatuses ==
    {st \in [orders : Statuses, retail : Statuses, payments : Statuses] :
        Cardinality({st.orders, st.retail, st.payments} \ {HTTP_OK}) <= 1}

OrderRow(sum, id) == [sum |-> sum, agent |-> "agent", href |-> id, fetch |-> HTTP_OK]

\* customer orders of two counterparties
GeneralOrderRows == {OrderRow(s, a) : s \in {5000, 10000, 20000}, a \in {1, 2}}

\* rows without a sum, without an agent, without an href, with a failed
\* secondary fetch
IrregularOrderRows ==
    {[sum |-> 5000, agent |-> "agent", href |-> 1, fetch |-> f] : f \in Statuses}
    \cup {[sum |-> 5000, agent |-> "agent", href |-> 2, fetch |-> HTTP_OK],
          [sum |-> 0, agent |-> "agent", href |-> 1, fetch |-> HTTP_OK]}
    \cup {[sum |-> s, agent |-> g, href |-> EmptyId, fetch |-> HTTP_OK] :
            s \in {0, 5000}, g \in {NoAgent, NoHref}}

RetailRows == {[sum |-> 7000]}

PaymentRows ==
    {[sum |-> s, agent |-> "agent", href |-> 1, paymentType |-> t] :
        s \in {3000, 5000}, t \in {"cash", "card"}}
    \cup {[sum |-> 3000, agent |-> NoAgent, href |-> 1, paymentType |-> "card"],
          [sum |-> 0, agent |-> "agent", href |-> 1, paymentType |-> "cash"]}

\* n rows of n distinct counterparties, ids ascending or descending along the list
RankIds(n, asc) == [i \in 1..n |-> IF asc THEN i ELSE n + 1 - i]

RankOrders(ids, sums) == [i \in DOMAIN ids |-> OrderRow(sums[i], ids[i])]

RankPayments(ids, sums) ==
    [i \in DOMAIN ids |-> [sum |-> sums[i], agent |-> "agent", href |-> ids[i],
                           paymentType |-> "cash"]]

NoResult == [op |-> "none"]

NoEvent == [handler |-> "none", chat |-> 0, text |-> NoDate, state |-> END,
            start |-> NoDate, msgs |-> <<>>, raised |-> FALSE, failed |-> FALSE,
            report |-> NoReport, payload |-> NoPayload, producer |-> "none",
            replied |-> FALSE]

ConvInit ==
    /\ conv = [c \in Chats |-> END]
    /\ user_data = NoDate
    /\ last = NoEvent

\* no environment value, no /setreport and no firing yet
NoJob == [op |-> "none", chat |-> 0, sent |-> <<>>, raised |-> FALSE, accepted |-> FALSE]

Unset == [kind |-> "unset", val |-> 0]

\* no file, no mutation running
StoreIdle ==
    /\ tokens_file = [kind |-> "missing", entries |-> <<>>]
    /\ procs = <<>>
    /\ done = [op |-> "none"]

JobIdle ==
    /\ ADMIN_CHAT_ID = Unset
    /\ bot_data = <<>>
    /\ promised = {}
    /\ job = NoJob
    /\ StoreIdle

AggIdle ==
    /\ ordersRemote = <<>>
    /\ retailRemote = <<>>
    /\ paymentsRemote = <<>>
    /\ result = NoResult

-----------------------------------------------------------------------------
(* The aggregation calls over a bounded remote *)

InitGeneral ==
    /\ ordersRemote \in BSeq(GeneralOrderRows, MaxOrders)
    /\ retailRemote \in BSeq(RetailRows, MaxRetail)
    /\ paymentsRemote = <<>>

InitIrregular ==
    /\ ordersRemote \in BSeq(IrregularOrderRows, MaxIrregular)
    /\ retailRemote \in {<<>>, <<[sum |-> 0]>>, <<[sum |-> 7000], [sum |-> 0]>>}
    /\ paymentsRemote = <<>>

InitPayments ==
    /\ ordersRemote = <<>>
    /\ retailRemote = <<>>
    /\ paymentsRemote \in BSeq(PaymentRows, MaxPayments)

\* one order per counterparty; the rows at the positions of odd carry the
\* sum oddSum, the others otherSum
InitRank ==
    \E n \in (MaxRankRows - 1)..MaxRankRows, asc \in BOOLEAN, high \in BOOLEAN :
        \E odd \in {S \in SUBSET (1..n) : Cardinality(S) <= 2} :
            LET sums == [i \in 1..n |-> IF (i \in odd) = high THEN 20000 ELSE 10000]
            IN  /\ ordersRemote = RankOrders(RankIds(n, asc), sums)
                /\ retailRemote = <<>>
                /\ paymentsRemote = RankPayments(RankIds(n, asc), sums)

InitAgg ==
    /\ InitGeneral \/ InitIrregular \/ InitPayments \/ InitRank
    /\ result = NoResult
    /\ ConvInit
    /\ padYear = TRUE
    /\ JobIdle

SalesStats ==
    /\ \E st \in FetchStatuses :
          /\ st.payments = HTTP_OK
          /\ result' = get_sales_stats_with_retail(st.orders, ordersRemote,
                                                    st.retail, retailRemote)
    /\ UNCHANGED <<ordersRemote, retailRemote, paymentsRemote, convVars, jobVars>>

DailySummary ==
    /\ \E st \in FetchStatuses :
          result' = get_daily_summary(st.orders, ordersRemote, st.retail, retailRemote,
                                      st.payments, paymentsRemote)
    /\ UNCHANGED <<ordersRemote, retailRemote, paymentsRemote, convVars, jobVars>>

IncomingPayments ==
    /\ \E st \in FetchStatuses :
          /\ st.orders = HTTP_OK /\ st.retail = HTTP_OK
          /\ result' = send_incoming_payments(st.payments, paymentsRemote)
    /\ UNCHANGED <<ordersRemote, retailRemote, paymentsRemote, convVars, jobVars>>

NextAgg == SalesStats \/ DailySummary \/ IncomingPayments

SpecAgg == InitAgg /\ [][NextAgg]_vars

-----------------------------------------------------------------------------
(* Claims about the aggregation engine, checked under SpecAgg *)

IsSales == result.op = "get_sales_stats_with_retail"
IsDaily == result.op = "get_daily_summary"
IsPaymentsReport == result.op = "send_incoming_payments"

\* C1: in the summary of get_sales_stats_with_retail and in the one of
\* get_daily_summary, total_sales.total is customer_orders.total + retail.total
\* and total_sales.count is customer_orders.count + retail.count, and these are
\* the sums and the numbers of the two fetched lists.
C1_TotalSalesIsSum ==
    (IsSales \/ IsDaily) =>
        /\ result.ret.total_sales.total
              = result.ret.customer_orders.total + result.ret.retail.total
        /\ result.ret.total_sales.count
              = result.ret.customer_orders.count + result.ret.retail.count
        /\ result.ret.total_sales.total
              = SumOf(result.orders_data) + SumOf(result.retail_data)
        /\ result.ret.total_sales.count
              = Len(result.orders_data) + Len(result.retail_data)

C1_Witness ==
    /\ IsSales
    /\ result.ret.customer_orders.count > 0
    /\ result.ret.retail.count > 0
    /\ result.ret.total_sales.total > result.ret.customer_orders.total

Scenario1 ==
    << [sum |-> 10000, agent |-> [id |-> 1, name |-> Resolved]],
       [sum |-> 5000,  agent |-> [id |-> 1, name |-> Resolved]],
       [sum |-> 20000, agent |-> [id |-> 2, name |-> Resolved]] >>

\* C2: every counterparty of the grouping map of get_sales_stats_with_retail is
\* in exactly one of new_customers_list (one order) and returning_customers_list
\* (more than one), the two lists hold nothing else, and new_customers +
\* returning_customers = customer_count; orders A(100.00), A(50.00), B(200.00)
\* give 2 customers, 1 new (B), 1 returning (A) with total 150.00, and B on top.
C2_NewReturningPartition ==
    IsSales =>
        LET ret == result.ret
            customers == result.customers
        IN  /\ \A i \in 1..Len(customers) :
                  /\ (customers[i] \in Range(ret.new_customers_list))
                        # (customers[i] \in Range(ret.returning_customers_list))
                  /\ (customers[i] \in Range(ret.new_customers_list))
                        <=> (customers[i].orders = 1)
                  /\ (customers[i] \in Range(ret.returning_customers_list))
                        <=> (customers[i].orders > 1)
            /\ Range(ret.new_customers_list) \cup Range(ret.returning_customers_list)
                  = Range(customers)
            /\ ret.new_customers = Len(ret.new_customers_list)
            /\ ret.returning_customers = Len(ret.returning_customers_list)
            /\ ret.customer_count = Len(customers)
            /\ ret.new_customers + ret.returning_customers = ret.customer_count
            /\ result.orders_data = Scenario1 =>
                  /\ ret.customer_count = 2
                  /\ ret.new_customers = 1
                  /\ ret.new_customers_list[1].id = 2
                  /\ ret.returning_customers = 1
                  /\ ret.returning_customers_list[1].id = 1
                  /\ ret.returning_customers_list[1].total = 15000
                  /\ ret.top_customers[1].id = 2

C2_Witness == IsSales /\ result.orders_data = Scenario1

\* the rankings of the current result, each with the records it was built from
Rankings ==
    IF IsSales THEN {[top |-> result.ret.top_customers, data |-> result.orders_data,
                      n |-> TOP_N_PERIOD]}
    ELSE IF IsDaily THEN {[top |-> result.ret.top_customers, data |-> result.orders_data,
                           n |-> TOP_N_DAILY],
                          [top |-> result.ret.top_payers, data |-> result.payments_data,
                           n |-> TOP_N_DAILY]}
    ELSE IF IsPaymentsReport THEN {[top |-> result.ret.top_payers,
                                    data |-> result.payments_data, n |-> TOP_N_PERIOD]}
    ELSE {}

\* position of the first record of counterparty id in the fetched list
FirstPos(data, id) ==
    CHOOSE i \in 1..Len(data) :
        /\ data[i].agent.id = id /\ data[i].agent # None
        /\ \A j \in 1..(i - 1) : data[j].agent.id # id \/ data[j].agent = None

\* C3 as stated: every ranking is sorted descending by total and, of two
\* entries with equal total, the one with the smaller id comes first.
C3_TieByIdAscending ==
    \A r \in Rankings : \A i, j \in 1..Len(r.top) :
        i < j => \/ r.top[i].total > r.top[j].total
                 \/ r.top[i].total = r.top[j].total /\ r.top[i].id < r.top[j].id

\* C3 amended: every ranking is sorted descending by total and, of two entries
\* with equal total, the one whose counterparty occurs first in the fetched
\* records comes first.
C3_TieByFirstOccurrence ==
    \A r \in Rankings : \A i, j \in 1..Len(r.top) :
        i < j => \/ r.top[i].total > r.top[j].total
                 \/ /\ r.top[i].total = r.top[j].total
                    /\ FirstPos(r.data, r.top[i].id) < FirstPos(r.data, r.top[j].id)

C3_Witness ==
    /\ IsSales
    /\ \E i, j \in 1..Len(result.ret.top_customers) :
          /\ i < j
          /\ result.ret.top_customers[i].total = result.ret.top_customers[j].total
          /\ result.ret.top_customers[i].id > result.ret.top_customers[j].id

\* the averaged fields of the current result: total, count and average
AveragedFields ==
    IF IsSales THEN {result.ret.customer_orders, result.ret.retail, result.ret.total_sales}
    ELSE IF IsDaily
    THEN {result.ret.customer_orders, result.ret.retail, result.ret.total_sales,
          [count |-> result.ret.payments.count, total |-> result.ret.payments.total,
           avg_order |-> result.ret.payments.avg_payment]}
    ELSE IF IsPaymentsReport
    THEN {[count |-> result.ret.total_payments, total |-> result.ret.total_amount,
           avg_order |-> result.avg_payment]}
    ELSE {}

\* C4: every averaged field is total / count when count > 0 and zero when
\* count = 0, and no call divides by zero.
C4_AverageGuarded ==
    /\ \A f \in AveragedFields :
          /\ f.count > 0 => /\ f.avg_order.den > 0
                            /\ f.avg_order.num * f.count = f.total * f.avg_order.den
          /\ f.count = 0 => f.avg_order = Decimal0
    /\ result.op # "none" => ~result.raised

C4_Witness ==
    /\ IsDaily
    /\ result.ret.customer_orders.count = 1
    /\ result.ret.customer_orders.avg_order.num > 0
    /\ result.ret.retail.count = 0
    /\ result.ret.payments.count = 0

\* the grouping map a ranking was cut from
Groupings ==
    IF IsSales THEN {[top |-> result.ret.top_customers, all |-> result.customers,
                      n |-> TOP_N_PERIOD]}
    ELSE IF IsDaily THEN {[top |-> result.ret.top_customers, all |-> result.customers,
                           n |-> TOP_N_DAILY],
                          [top |-> result.ret.top_payers, all |-> result.payers,
                           n |-> TOP_N_DAILY]}
    ELSE IF IsPaymentsReport THEN {[top |-> result.ret.top_payers, all |-> result.customers,
                                    n |-> TOP_N_PERIOD]}
    ELSE {}

\* C5: the ranking of a period summary has min(10, number of grouped
\* counterparties) entries, a ranking of the daily digest min(3, ...); its
\* entries are distinct entries of the grouping map, and no entry left out has
\* a total greater than one that is in.
C5_TopNSize ==
    \A g \in Groupings :
        /\ Len(g.top) = Min(g.n, Len(g.all))
        /\ Range(g.top) \subseteq Range(g.all)
        /\ \A i, j \in 1..Len(g.top) : i # j => g.top[i].id # g.top[j].id
        /\ \A c \in Range(g.all) \ Range(g.top) :
              \A t \in Range(g.top) : ~(c.total > t.total)

C5_Witness ==
    /\ IsSales
    /\ Len(result.customers) > TOP_N_PERIOD
    /\ Len(result.ret.top_customers) = TOP_N_PERIOD
    /\ \E c \in Range(result.customers) \ Range(result.ret.top_customers) :
          \E i \in 1..Len(result.customers) :
              result.customers[i].total > c.total

CustomerAnalysis(ret) ==
    [customer_orders |-> ret.customer_orders,
     customer_count |-> ret.customer_count,
     new_customers |-> ret.new_customers,
     returning_customers |-> ret.returning_customers,
     new_customers_list |-> ret.new_customers_list,
     returning_customers_list |-> ret.returning_customers_list,
     top_customers |-> ret.top_customers]

\* C6: with the fetched customer orders fixed, customer_orders, customer_count,
\* new_customers, returning_customers, the two customer lists and top_customers
\* of get_sales_stats_with_retail are the same for every list of retail sales
\* and every outcome of the retail request.
C6_RetailOutsideAnalysis ==
    IsSales =>
        \A so \in Statuses, sr \in Statuses, rrows \in BSeq(RetailRows, MaxRetail) :
            LET other == get_sales_stats_with_retail(so, ordersRemote, sr, rrows)
            IN  other.orders_data = result.orders_data
                    => CustomerAnalysis(other.ret) = CustomerAnalysis(result.ret)

C6_Witness ==
    /\ IsSales
    /\ Len(result.retail_data) = 2
    /\ Len(result.customers) = 2
    /\ result.ret.returning_customers = 1

-----------------------------------------------------------------------------
(* The dispatcher of main() for the updates that concern the /period flow *)

\* dates typed as DD.MM.YYYY (31.02.2024 does not exist), one date in every
\* combination of separator, field order and year width, and a text that is
\* no date
Texts ==
    {DateText(".", "dmy", 1, 1, 2024, 4), DateText(".", "dmy", 31, 1, 2024, 4),
     DateText(".", "dmy", 1, 2, 2024, 4), DateText(".", "dmy", 31, 2, 2024, 4),
     DateText(".", "dmy", 1, 1, 999, 4),  DateText(".", "dmy", 31, 1, 999, 4)}
    \cup {DateText(sep, ord, 31, 1, 24, 2) : sep \in {".", "/"}, ord \in {"dmy"}}
    \cup {DateText(sep, ord, 31, 1, 2024, 4) : sep \in {"/", "-"}, ord \in {"dmy"}}
    \cup {DateText(sep, "ymd", 31, 1, 2024, 4) : sep \in {".", "-"}}
    \cup {Junk}

\* report commands registered in main(), one of each producer
ReportCommands == {"week", "top", "daily", "payments_month"}

\* the moment a report is asked for: Friday 1 March 2024, 12:34:56
ReportClock == {[y |-> 2024, m |-> 3, d |-> 1, secs |-> 45296]}

\* the two display dates a keyboard puts in a payload, strftime('%d.%m.%Y')
PayloadDates ==
    {<<DateText(".", "dmy", 1, 1, 2024, 4), DateText(".", "dmy", 31, 1, 2024, 4)>>}

\* Callback payloads of the keyboards: menus, keyword periods, the quick and
\* the custom periods with their dates, and one no keyboard has
Payloads ==
    {Payload(w, <<>>) :
        w \in {<<"main", "menu">>, <<"enter", "period">>, <<"daily", "summary">>,
               <<"today">>, <<"payments", "week">>, <<"refresh">>}}
    \cup {Payload(w, d) :
            w \in {<<"quick", "period">>, <<"customers", "custom">>,
                   <<"top", "custom">>, <<"payments", "custom">>},
            d \in PayloadDates}

\* Outcome of each send attempt of one update: TRUE when Telegram accepts it.
\* A handler makes a third or later attempt only after an earlier one failed, so
\* the failures are one burst [a, b) that starts at the first or second attempt.
Nets ==
    {[i \in 1..MAX_SENDS |-> ~(a <= i /\ i < b)] : a \in 1..2, b \in 1..(MAX_SENDS + 1)}

\* error_handler: after a handler raised, one more reply when the update has a message
ErrorHandlerMsgs(out, has_message, net) ==
    IF out.raised /\ has_message /\ net[out.attempts + 1] THEN <<"error_handler">> ELSE <<>>

\* the last send attempt of the update, error_handler's included, was delivered
Replied(out, has_message, net) ==
    LET n == out.attempts + (IF out.raised /\ has_message THEN 1 ELSE 0)
    IN  n > 0 /\ net[n]

\* What one update did: the handler that took it, the conversation state and
\* the stored start date it found, the messages that reached the chat, and the
\* producer and the range of the report it asked for.
Event(chat, handler, text, payload, producer, out, has_message, net) ==
    [handler |-> handler, chat |-> chat, text |-> text,
     state |-> conv[chat], start |-> user_data,
     msgs |-> out.msgs \o ErrorHandlerMsgs(out, has_message, net),
     raised |-> out.raised,
     failed |-> out.failed \/ (out.raised /\ has_message /\ ~net[out.attempts + 1]),
     report |-> out.report, payload |-> payload,
     producer |-> IF out.report = NoReport THEN "none" ELSE producer,
     replied |-> Replied(out, has_message, net)]

\* ConversationHandler: the returned state becomes the state of the chat's
\* conversation; when the handler raised, the state stays as it was.
Dispatch(chat, handler, text, out, has_message, net) ==
    /\ conv' = [conv EXCEPT ![chat] = IF out.raised THEN @ ELSE out.ret]
    /\ user_data' = out.user_data
    /\ last' = Event(chat, handler, text, NoPayload, "send_period_statistics", out,
                     has_message, net)
    /\ UNCHANGED <<padYear, aggVars, jobVars>>

\* A handler of main() outside the ConversationHandler: the conversations and
\* the user's data stay as they are.
DispatchOutside(chat, handler, payload, producer, out, has_message, net) ==
    /\ last' = Event(chat, handler, NoDate, payload, producer, out, has_message, net)
    /\ UNCHANGED <<conv, user_data, padYear, aggVars, jobVars>>

\* /period, or the enter_period button: an entry point, also from inside the
\* flow (allow_reentry=True)
PeriodCommand(chat) ==
    \E has_message \in BOOLEAN, net \in Nets :
        Dispatch(chat, "period_command", NoDate, period_command(user_data, net),
                 has_message, net)

\* a text message in PERIOD_START_DATE
StartDateMessage(chat) ==
    /\ conv[chat] = PERIOD_START_DATE
    /\ \E text \in Texts, net \in Nets :
          Dispatch(chat, "handle_start_date", text,
                   handle_start_date(user_data, text, net, padYear), TRUE, net)

\* a text message in PERIOD_END_DATE
EndDateMessage(chat) ==
    /\ conv[chat] = PERIOD_END_DATE
    /\ \E text \in Texts, net \in Nets :
          Dispatch(chat, "handle_end_date", text,
                   handle_end_date(user_data, text, net, padYear), TRUE, net)

\* /cancel inside the flow
CancelCommand(chat) ==
    /\ conv[chat] \in {PERIOD_START_DATE, PERIOD_END_DATE}
    /\ \E net \in Nets :
          Dispatch(chat, "cancel_period", NoDate, cancel_period(user_data, TRUE, net),
                   TRUE, net)

\* the main_menu button inside the flow: the fallback calls cancel_period
MainMenuButton(chat) ==
    /\ conv[chat] \in {PERIOD_START_DATE, PERIOD_END_DATE}
    /\ \E net \in Nets :
          Dispatch(chat, "cancel_period_button", NoDate,
                   cancel_period(user_data, FALSE, net), FALSE, net)

\* /today, /week, /month, /top, /daily, /payments_today, /payments_week and
\* /payments_month: in the flow and outside of it (a command is no TEXT &
\* ~COMMAND message, so the ConversationHandler passes it on)
ReportCommand(chat) ==
    \E command \in ReportCommands, net \in Nets, now \in ReportClock :
        DispatchOutside(chat, "report_command", Payload(<<command>>, <<>>),
                        CommandProducer(command),
                        report_command(user_data, command, net, now), TRUE, net)

\* A button press that the ConversationHandler does not take: it takes
\* enter_period always and main_menu while the chat is in the flow.
ButtonPress(chat) ==
    \E payload \in Payloads, now \in ReportClock :
        /\ ButtonBranch(payload) # "enter_period"
        /\ ButtonBranch(payload) = "main_menu" => conv[chat] = END
        /\ \E net \in Nets :
              DispatchOutside(chat, "button_handler", payload, ButtonPlan(payload).producer,
                              button_handler(user_data, payload, TRUE, net, now),
                              FALSE, net)

\* a button press whose query is too old to be answered: nothing is sent
StaleButtonPress(chat) ==
    \E payload \in Payloads, now \in ReportClock :
        /\ ButtonBranch(payload) # "enter_period"
        /\ ButtonBranch(payload) = "main_menu" => conv[chat] = END
        /\ DispatchOutside(chat, "button_handler", payload, ButtonPlan(payload).producer,
                           button_handler(user_data, payload, FALSE,
                                          [i \in 1..MAX_SENDS |-> TRUE], now),
                           FALSE, [i \in 1..MAX_SENDS |-> TRUE])

\* a text message or /cancel outside the flow: no handler of main() matches
Unhandled(chat) ==
    /\ conv[chat] = END
    /\ \E text \in Texts :
          last' = [NoEvent EXCEPT !.handler = "unhandled", !.chat = chat, !.text = text,
                                  !.state = conv[chat], !.start = user_data]
    /\ UNCHANGED <<conv, user_data, padYear, aggVars, jobVars>>

InitConv ==
    /\ ConvInit
    /\ padYear \in BOOLEAN
    /\ AggIdle
    /\ JobIdle

NextConv ==
    \E chat \in Chats :
        \/ PeriodCommand(chat)
        \/ StartDateMessage(chat)
        \/ EndDateMessage(chat)
        \/ CancelCommand(chat)
        \/ MainMenuButton(chat)
        \/ ReportCommand(chat)
        \/ ButtonPress(chat)
        \/ StaleButtonPress(chat)
        \/ Unhandled(chat)

SpecConv == InitConv /\ [][NextConv]_vars

-----------------------------------------------------------------------------
(* Claims about the /period conversation, checked under SpecConv.           *)
(* last.failed tells that Telegram refused one of the handler's messages;   *)
(* the transitions of the flow are stated for updates whose replies were    *)
(* delivered.                                                               *)

\* the text is a date in one of the five accepted forms
AcceptedForm(text) == \E i \in 1..Len(date_formats) : strptime(text, date_formats[i]) # NoneDate

\* the calendar date a text or a stored string denotes
DateOf(text) == [y |-> YearOf(text), m |-> text.m, d |-> text.d]

Delivered(handler) == last.handler = handler /\ ~last.failed

EndDateCase ==
    /\ Delivered("handle_end_date")
    /\ last.state = PERIOD_END_DATE
    /\ last.start # NoDate
    /\ AcceptedForm(last.text)

\* C8: in PERIOD_END_DATE a valid end date before the stored start date is
\* rejected: the conversation stays in PERIOD_END_DATE, the stored start date is
\* unchanged, no report is generated and the reply is the rejection that names
\* both dates.
C8_EndBeforeStartRejected ==
    (EndDateCase /\ Before(DateOf(last.text), DateOf(last.start))) =>
        /\ conv[last.chat] = PERIOD_END_DATE
        /\ user_data = last.start
        /\ last.report = NoReport
        /\ last.msgs = <<"end_before_start">>

\* C9: in PERIOD_END_DATE with a stored start date, a valid end date on or after
\* it ends the flow (END), clears the stored start date and generates the report
\* for [start date 00:00:00, end date 23:59:59].
C9_EndDateCompletesFlow ==
    (EndDateCase /\ ~Before(DateOf(last.text), DateOf(last.start))) =>
        /\ conv[last.chat] = END
        /\ user_data = NoDate
        /\ last.report = [start |-> start_date_api(DateOf(last.start)),
                          end |-> end_date_api(DateOf(last.text))]
        /\ last.msgs = <<"loading", "report">>

InFlow == {PERIOD_START_DATE, PERIOD_END_DATE}

\* the last update took its chat's conversation out of the flow
FlowEnded == last.handler # "none" /\ last.state \in InFlow /\ conv[last.chat] = END

\* C11: the conversation leaves PERIOD_START_DATE / PERIOD_END_DATE for END only
\* by /cancel or by an accepted end date for which the report is generated; no
\* other update ends the flow without a report.
C11_OnlyCancelOrReportEndsFlow ==
    FlowEnded =>
        \/ last.handler = "cancel_period"
        \/ /\ last.handler = "handle_end_date"
           /\ AcceptedForm(last.text)
           /\ last.report # NoReport

\* C12 as stated, read per conversation: whenever a conversation is END, no
\* start date is stored in the user's user_data.
C12_IdleConversationNoStartDate ==
    \A chat \in Chats : conv[chat] = END => user_data = NoDate

\* C12: whenever none of the user's conversations is inside the flow (never
\* started, completed, cancelled), no start date is stored in user_data.
C12_AllIdleNoStartDate ==
    (\A chat \in Chats : conv[chat] = END) => user_data = NoDate

C12_Witness ==
    /\ last.handler = "handle_end_date"
    /\ last.start # NoDate
    /\ last.msgs = <<"loading", "report">>
    /\ \A chat \in Chats : conv[chat] = END
    /\ user_data = NoDate

-----------------------------------------------------------------------------
(* Claims about the fetches and the summaries, checked under SpecAgg *)

\* the rows a request with this status delivers
RowsSeen(status, rows) == IF status = HTTP_OK THEN rows ELSE <<>>

\* the value the same call returns when every request succeeds and the failed
\* ones deliver no rows
SummaryOfDelivered ==
    LET st == result.statuses
        o  == RowsSeen(st.orders, ordersRemote)
        r  == RowsSeen(st.retail, retailRemote)
        p  == RowsSeen(st.payments, paymentsRemote)
    IN  IF IsSales THEN get_sales_stats_with_retail(HTTP_OK, o, HTTP_OK, r).ret
        ELSE IF IsDaily THEN get_daily_summary(HTTP_OK, o, HTTP_OK, r, HTTP_OK, p).ret
        ELSE send_incoming_payments(HTTP_OK, p).ret

\* C13: a list fetch whose request gets a non-200 status or raises returns
\* count 0, total 0 and the empty list, the call does not raise, and the summary
\* is the one built from a successful fetch of zero records.
C13_FailedFetchIsEmpty ==
    result.op # "none" =>
        LET st == result.statuses
        IN  /\ ~result.raised
            /\ st.orders # HTTP_OK =>
                  /\ result.orders_data = <<>>
                  /\ (IsSales \/ IsDaily) =>
                        result.ret.customer_orders.count = 0 /\ result.ret.customer_orders.total = 0
            /\ st.retail # HTTP_OK =>
                  /\ result.retail_data = <<>>
                  /\ (IsSales \/ IsDaily) =>
                        result.ret.retail.count = 0 /\ result.ret.retail.total = 0
            /\ st.payments # HTTP_OK =>
                  /\ result.payments_data = <<>>
                  /\ IsDaily => result.ret.payments.count = 0 /\ result.ret.payments.total = 0
                  /\ IsPaymentsReport =>
                        result.ret.total_payments = 0 /\ result.ret.total_amount = 0
            /\ result.ret = SummaryOfDelivered

\* the orders request raised although the remote holds an order; retail answered
C13_Witness ==
    /\ IsDaily
    /\ result.statuses.orders = 0
    /\ result.statuses.retail = HTTP_OK
    /\ \E i \in 1..Len(ordersRemote) : HasSum(ordersRemote[i])
    /\ result.ret.customer_orders.count = 0
    /\ result.ret.retail.count > 0

\* the orders request succeeded in a call that fetches customer orders
OrdersFetched == (IsSales \/ IsDaily) /\ result.statuses.orders = HTTP_OK

\* the secondary fetch of this order's counterparty failed
SecondaryFailed(row) == row.agent \notin {NoAgent, NoHref} /\ row.fetch # HTTP_OK

\* the remote's rows with every secondary fetch answered
Healed(rows) == [i \in DOMAIN rows |-> [rows[i] EXCEPT !.fetch = HTTP_OK]]

\* C14: in get_customer_orders_data an order whose secondary counterparty fetch
\* fails (non-200 or exception) is still counted and summed, with the
\* placeholder counterparty (id = href suffix, name 'Bez imeni'), and every
\* other order is processed as if no fetch had failed.
C14_SecondaryFailureKeepsBatch ==
    OrdersFetched =>
        LET kept   == SelectSeq(ordersRemote, HasSum)
            data   == result.orders_data
            healed == get_customer_orders_data(HTTP_OK, Healed(ordersRemote)).data
        IN  /\ Len(data) = Len(kept)
            /\ result.ret.customer_orders.count = Len(kept)
            /\ result.ret.customer_orders.total = SumOf(kept)
            /\ \A i \in 1..Len(kept) :
                  /\ data[i].sum = kept[i].sum
                  /\ SecondaryFailed(kept[i]) =>
                        data[i].agent = [id |-> kept[i].href, name |-> Unnamed]
                  /\ ~SecondaryFailed(kept[i]) => data[i] = healed[i]

\* the first order's secondary fetch raised, the second order's succeeded
C14_Witness ==
    /\ OrdersFetched
    /\ Len(ordersRemote) = 2
    /\ HasSum(ordersRemote[1]) /\ SecondaryFailed(ordersRemote[1]) /\ ordersRemote[1].fetch = 0
    /\ HasSum(ordersRemote[2]) /\ ordersRemote[2].href = 2
    /\ result.ret.customer_orders.count = 2
    /\ result.orders_data[1].agent.name = Unnamed
    /\ result.orders_data[2].agent.name = Resolved

\* the distinct counterparty references among the orders the fetch keeps
DistinctReferences(rows) ==
    {rows[i].href : i \in {j \in 1..Len(rows) : IssuesAgentRequest(rows[j])}}

\* C15: one customer-orders fetch issues as many secondary counterparty requests
\* as there are distinct counterparty references among its orders: a
\* counterparty referenced by several orders is requested once.
C15_OneRequestPerCounterparty ==
    OrdersFetched => result.agent_requests = Cardinality(DistinctReferences(ordersRemote))

-----------------------------------------------------------------------------
(* The period resolver over a bounded set of moments *)

\* the keywords of the report commands, and one that is none of them
Periods == {"today", "week", "month", "custom"}

ClockReadings == {0, 1, 45296, 86399}

\* the days around a year end, around the end of February of a leap year and
\* of a common year
NowDates ==
    {[y |-> 2023, m |-> 12, d |-> d] : d \in 25..31}
    \cup {[y |-> 2024, m |-> 1, d |-> d] : d \in 1..8}
    \cup {[y |-> 2024, m |-> 2, d |-> d] : d \in 26..29}
    \cup {[y |-> 2024, m |-> 3, d |-> d] : d \in 1..4}
    \cup {[y |-> 2023, m |-> 2, d |-> 28], [y |-> 2023, m |-> 3, d |-> 1]}

Nows == {[y |-> dt.y, m |-> dt.m, d |-> dt.d, secs |-> t] : dt \in NowDates, t \in ClockReadings}

InitDates ==
    /\ AggIdle
    /\ ConvInit
    /\ padYear = TRUE
    /\ JobIdle

GetPeriodDates ==
    /\ \E period \in Periods, now \in Nows :
          result' = [op |-> "get_period_dates", period |-> period, now |-> now,
                     ret |-> get_period_dates(period, now)]
    /\ UNCHANGED <<ordersRemote, retailRemote, paymentsRemote, convVars, jobVars>>

\* The three list fetches called with one resolved range: get_daily_summary
\* for 'today', the sales and the payment report of one period otherwise.
ListFetches ==
    /\ \E period \in Periods, now \in Nows :
          LET dates == get_period_dates(period, now)
          IN  result' = [op |-> "list_fetches", period |-> period, now |-> now,
                         ret |-> dates,
                         filters |-> [orders   |-> orders_filter(dates.start, dates.end),
                                      retail   |-> retail_filter(dates.start, dates.end),
                                      payments |-> payments_filter(dates.start, dates.end)]]
    /\ UNCHANGED <<ordersRemote, retailRemote, paymentsRemote, convVars, jobVars>>

NextDates == GetPeriodDates \/ ListFetches

SpecDates == InitDates /\ [][NextDates]_vars

(* Claims about the period resolver, checked under SpecDates *)

DateOnly(x) == [y |-> x.y, m |-> x.m, d |-> x.d]

\* the second of the day a time text denotes
SecondsOf(text) == CHOOSE t \in ClockReadings : TimeText(t) = text

\* moment a is not after moment b
NotAfter(a, b) ==
    \/ Before(DateOnly(a), DateOnly(b))
    \/ DateOnly(a) = DateOnly(b) /\ SecondsOf(a.time) <= SecondsOf(b.time)

\* Zeller's congruence: 0 Saturday, 1 Sunday, 2 Monday, ...
Zeller(dt) ==
    LET mm == IF dt.m < 3 THEN dt.m + 12 ELSE dt.m
        yy == IF dt.m < 3 THEN dt.y - 1 ELSE dt.y
        K  == yy % 100
        J  == yy \div 100
    IN  (dt.d + ((13 * (mm + 1)) \div 5) + K + (K \div 4) + (J \div 4) + 5 * J) % 7

NextDay(dt) ==
    IF dt.d < DaysInMonth(dt.y, dt.m) THEN [dt EXCEPT !.d = @ + 1]
    ELSE IF dt.m < 12 THEN [dt EXCEPT !.m = @ + 1, !.d = 1]
    ELSE [dt EXCEPT !.y = @ + 1, !.m = 1, !.d = 1]

RECURSIVE PlusDays(_, _)
PlusDays(dt, k) == IF k = 0 THEN dt ELSE PlusDays(NextDay(dt), k - 1)

\* C20: for every moment now, get_period_dates returns start <= end with end
\* equal to now to the second, and start at midnight of the current day for
\* 'today', of the most recent Monday (today included) for 'week' and of the
\* first day of the current month for 'month'.
C20_PeriodDates ==
    (result.op = "get_period_dates" /\ result.period \in {"today", "week", "month"}) =>
        LET now   == result.now
            start == result.ret.start
            end   == result.ret.end
        IN  /\ end = [y |-> now.y, m |-> now.m, d |-> now.d, time |-> TimeText(now.secs)]
            /\ start.time = "00:00:00"
            /\ NotAfter(start, end)
            /\ result.period = "today" => DateOnly(start) = DateOnly(now)
            /\ result.period = "week" =>
                  /\ Zeller(start) = 2
                  /\ \E k \in 0..6 : PlusDays(DateOnly(start), k) = DateOnly(now)
            /\ result.period = "month" =>
                  DateOnly(start) = [y |-> now.y, m |-> now.m, d |-> 1]

\* 'week' asked on Wednesday 2024-01-03, 12:34:56: the week began in 2024, on
\* Monday 2024-01-01
C20_Witness ==
    /\ result.op = "get_period_dates"
    /\ result.period = "week"
    /\ result.now = [y |-> 2024, m |-> 1, d |-> 3, secs |-> 45296]
    /\ result.ret.start = [y |-> 2024, m |-> 1, d |-> 1, time |-> "00:00:00"]
    /\ result.ret.end = [y |-> 2024, m |-> 1, d |-> 3, time |-> "12:34:56"]

-----------------------------------------------------------------------------
(* A claim about the payment summary, checked under SpecAgg *)

\* the payments that carry the label
WithLabel(data, label) == SelectSeq(data, LAMBDA payment : payment.payment_type = label)

RECURSIVE SumTotals(_)
SumTotals(s) == IF s = <<>> THEN 0 ELSE Head(s).total + SumTotals(Tail(s))

RECURSIVE SumCounts(_)
SumCounts(s) == IF s = <<>> THEN 0 ELSE Head(s).count + SumCounts(Tail(s))

\* C19: get_incoming_payments_stats groups the payments by payment_type label,
\* whatever their counterparty: one entry per label, its total the sum and its
\* count the number of the payments with the label; the totals add up to
\* total_amount, the counts to total_payments, and the list is sorted
\* descending by total.
C19_PaymentTypes ==
    IsPaymentsReport =>
        LET types == result.ret.payment_types
            data  == result.payments_data
        IN  /\ {types[i].type : i \in 1..Len(types)} =
                  {data[j].payment_type : j \in 1..Len(data)}
            /\ \A i, k \in 1..Len(types) : types[i].type = types[k].type => i = k
            /\ \A i \in 1..Len(types) :
                  /\ types[i].total = SumOf(WithLabel(data, types[i].type))
                  /\ types[i].count = Len(WithLabel(data, types[i].type))
            /\ SumTotals(types) = result.ret.total_amount
            /\ SumCounts(types) = result.ret.total_payments
            /\ \A i \in 1..(Len(types) - 1) : types[i].total >= types[i + 1].total

\* two labels, the one met second has the larger total, and one payment has no
\* counterparty
C19_Witness ==
    /\ IsPaymentsReport
    /\ Len(result.payments_data) = 3
    /\ result.payments_data[1].payment_type = "cash"
    /\ \E j \in 1..3 : result.payments_data[j].agent = None
    /\ Len(result.ret.payment_types) = 2
    /\ result.ret.payment_types[1].type = "card"
    /\ result.ret.payment_types[1].total > result.ret.payment_types[2].total
    /\ result.ret.customer_count = 1

-----------------------------------------------------------------------------
(* Claims about the updates outside the flow, checked under SpecConv.        *)
(* An update with a text (last.text # NoDate) is a free-text message.        *)

HasMsg(kind) == \E i \in DOMAIN last.msgs : last.msgs[i] = kind

\* C17: a free-text message that arrives while the chat's conversation is not
\* in the /period flow is answered with a generic help message, and one that
\* arrives while the flow is active is taken by a handler of the flow.
C17_FreeTextAnsweredOrConsumed ==
    last.text # NoDate =>
        IF last.state = END
        THEN HasMsg("help")
        ELSE last.handler \in {"handle_start_date", "handle_end_date"}

\* the report a producer sends: customer details, top customers or payments
ReportKind(producer) ==
    IF producer \in {"send_customers_details", "customers_custom_period"} THEN "customers"
    ELSE IF producer \in {"send_top_customers", "send_top_customers_custom"} THEN "top"
    ELSE IF producer \in {"send_incoming_payments", "send_payments_custom_period"}
         THEN "payments"
    ELSE "sales"

CustomButton ==
    /\ last.handler = "button_handler"
    /\ last.payload.words \in {<<"customers", "custom">>, <<"top", "custom">>,
                               <<"payments", "custom">>}
    /\ Len(last.payload.dates) = 2

\* C18: a press of a customers_custom_, top_custom_ or payments_custom_ button
\* with the dates <start> and <end> that is answered with a report gets the
\* customer-details, top-customers or payments report, and that report is
\* for the range from <start> 00:00:00 to <end> 23:59:59.
C18_CustomButtonsReportEncodedRange ==
    (CustomButton /\ HasMsg("report")) =>
        /\ ReportKind(last.producer) = last.payload.words[1]
        /\ last.report.start = start_date_api(strptime(last.payload.dates[1], date_formats[1]))
        /\ last.report.end = end_date_api(strptime(last.payload.dates[2], date_formats[1]))

\* the update reached a report producer: a report command, a report button
\* whose loading text went out, or the end date that completes the flow
ReportEvent == last.report # NoReport

ErrorTexts == {"stats_error", "button_error", "date_error", "error_handler"}

Loadings == SelectSeq(last.msgs, LAMBDA m : m = "loading")

Outcomes == SelectSeq(last.msgs, LAMBDA m : m # "loading")

\* C16: an update that reaches a report producer gets at most one loading
\* text and after it one outcome message, the report or an error text and
\* never both. The outcome is the report when Telegram refused none of the
\* update's messages, and there is an outcome whenever the last message the
\* bot tried to send for the update was delivered.
C16_OneOutcomePerReportEvent ==
    ReportEvent =>
        /\ Len(Loadings) <= 1
        /\ Len(Outcomes) <= 1
        /\ last.msgs = Loadings \o Outcomes
        /\ \A i \in DOMAIN Outcomes : Outcomes[i] \in {"report"} \cup ErrorTexts
        /\ ~last.failed => Outcomes = <<"report">>
        /\ last.replied => Len(Outcomes) = 1

\* a button's report could not be shown and its error text took its place
C16_Witness ==
    /\ ReportEvent
    /\ last.handler = "button_handler"
    /\ last.msgs = <<"loading", "stats_error">>

-----------------------------------------------------------------------------
(* Claims about the stored start date and the main_menu fallback, checked   *)
(* under SpecConv                                                           *)

\* C27: whenever a conversation is in PERIOD_END_DATE a start date is stored
\* in user_data, and no end-date message is answered with 'start date not
\* found'.
C27_EndDateStateHasStartDate ==
    /\ \A chat \in Chats : conv[chat] = PERIOD_END_DATE => user_data # NoDate
    /\ ~HasMsg("start_not_found")

\* C28: a press of the main_menu button while the conversation is in
\* PERIOD_START_DATE or PERIOD_END_DATE ends the flow: the conversation becomes
\* END, no start date stays stored and the user gets a message.
C28_MainMenuButtonEndsFlow ==
    last.handler = "cancel_period_button" =>
        /\ last.state \in InFlow
        /\ conv[last.chat] = END
        /\ user_data = NoDate
        /\ last.msgs # <<>>

-----------------------------------------------------------------------------
(* Claims about the counts and the attribution of the fetches, checked      *)
(* under SpecAgg                                                            *)

\* C24: for each list a call fetches successfully, the count it reports is the
\* number of rows the remote returned and the total is the sum of their
\* amounts, rows with amount zero included.
C24_CountAndTotalOfFetch ==
    (result.op # "none" /\ ~result.raised) =>
        LET st == result.statuses
        IN  /\ ((IsSales \/ IsDaily) /\ st.orders = HTTP_OK) =>
                  /\ result.ret.customer_orders.count = Len(ordersRemote)
                  /\ result.ret.customer_orders.total = SumOf(ordersRemote)
            /\ ((IsSales \/ IsDaily) /\ st.retail = HTTP_OK) =>
                  /\ result.ret.retail.count = Len(retailRemote)
                  /\ result.ret.retail.total = SumOf(retailRemote)
            /\ (IsDaily /\ st.payments = HTTP_OK) =>
                  /\ result.ret.payments.count = Len(paymentsRemote)
                  /\ result.ret.payments.total = SumOf(paymentsRemote)
            /\ (IsPaymentsReport /\ st.payments = HTTP_OK) =>
                  /\ result.ret.total_payments = Len(paymentsRemote)
                  /\ result.ret.total_amount = SumOf(paymentsRemote)

RECURSIVE SumOrders(_)
SumOrders(s) == IF s = <<>> THEN 0 ELSE Head(s).orders + SumOrders(Tail(s))

\* C29: in get_sales_stats_with_retail every counted customer order belongs to
\* exactly one counterparty entry, the placeholders no_agent and no_href
\* included: the entries have distinct ids, each order's counterparty has an
\* entry, the entries' order counts add up to customer_orders.count and
\* their totals to customer_orders.total.
C29_EveryOrderAttributed ==
    IsSales =>
        LET cs == result.customers
        IN  /\ \A i, j \in 1..Len(cs) : cs[i].id = cs[j].id => i = j
            /\ \A k \in 1..Len(result.orders_data) :
                  \E i \in 1..Len(cs) : cs[i].id = result.orders_data[k].agent.id
            /\ SumOrders(cs) = result.ret.customer_orders.count
            /\ SumTotals(cs) = result.ret.customer_orders.total

\* an order without agent and an order whose agent has no href are counted
C29_Witness ==
    /\ IsSales
    /\ result.ret.customer_orders.count = 2
    /\ \E i, j \in 1..Len(result.customers) :
          result.customers[i].id = NoAgentId /\ result.customers[j].id = NoHrefId

-----------------------------------------------------------------------------
(* A claim about the filters of the list requests, checked under SpecDates *)

\* C25: each of the three list fetches asks the remote for the records with
\* moment >= the start and moment <= the end of the range it was given, so
\* that the three lists of one resolved range cover one time window.
C25_FiltersAreTheRange ==
    result.op = "list_fetches" =>
        \A list \in {"orders", "retail", "payments"} :
            /\ result.filters[list].from = result.ret.start
            /\ result.filters[list].to = result.ret.end

-----------------------------------------------------------------------------
(* The scheduled daily report and /setreport *)

\* An environment value: unset (None), the empty string, a text that int()
\* rejects, or the decimal text of the integer val.
EnvInt(n) == [kind |-> "int", val |-> n]

EnvEmpty == [kind |-> "empty", val |-> 0]

EnvText == [kind |-> "text", val |-> 0]

\* a message sent to a chat
Sent(chat, text) == [chat |-> chat, text |-> text]

\* send_daily_summary(context=context, chat_id=chat_id): the digest is send
\* attempt 1; in 'except' the error text is attempt 2, and its exception leaves
\* the function.
send_daily_summary_scheduled(chat_id, net) ==
    IF net[1] THEN [sent |-> <<Sent(chat_id, "digest")>>, raised |-> FALSE]
    ELSE IF net[2] THEN [sent |-> <<Sent(chat_id, "digest_error")>>, raised |-> FALSE]
    ELSE [sent |-> <<>>, raised |-> TRUE]

\* a job that also serves the chats registered by /setreport
send_daily_report_to_registered(admin, report_chats, net) ==
    LET chats == (IF admin.kind = "int" /\ admin.val # 0 THEN <<admin.val>> ELSE <<>>)
                 \o report_chats
    IN  [sent |-> [i \in 1..Len(chats) |-> Sent(chats[i], "digest")], raised |-> FALSE]

\* send_daily_report: report_chats is context.bot_data['report_chats'], which
\* the job does not read; every exception is caught and logged.
send_daily_report(admin, report_chats, net) ==
    IF admin.kind \in {"unset", "empty"} THEN [sent |-> <<>>, raised |-> FALSE]
    ELSE IF admin.kind = "text" THEN [sent |-> <<>>, raised |-> FALSE]
    ELSE IF admin.val = 0 THEN [sent |-> <<>>, raised |-> FALSE]
    ELSE [sent |-> send_daily_summary_scheduled(admin.val, net).sent, raised |-> FALSE]

\* set_report_chat_command: hasattr(context.bot_data, 'report_chats') is False
\* for a dict, so the list is created anew and holds this chat only. The
\* confirmation is send attempt 1, the error text of 'except' attempt 2,
\* error_handler's reply attempt 3.
set_report_chat_command(report_chats, chat_id, net) ==
    [report_chats |-> <<chat_id>>,
     sent |-> IF net[1] THEN <<Sent(chat_id, "setreport_ok")>>
              ELSE IF net[2] THEN <<Sent(chat_id, "setreport_error")>>
              ELSE IF net[3] THEN <<Sent(chat_id, "error_handler")>>
              ELSE <<>>,
     raised |-> ~net[1] /\ ~net[2]]

\* values of ADMIN_CHAT_ID: unset, '', 'abc', '0', the id of a chat that can
\* also send /setreport, and the id of another chat
AdminValues == {Unset, EnvEmpty, EnvText, EnvInt(0), EnvInt(1), EnvInt(NumChats + 5)}

InitJob ==
    /\ AggIdle
    /\ ConvInit
    /\ padYear = TRUE
    /\ ADMIN_CHAT_ID \in AdminValues
    /\ bot_data = <<>>
    /\ promised = {}
    /\ job = NoJob
    /\ StoreIdle

\* job.accepted: Telegram accepts the first message the step sends

\* /setreport in a chat
SetReport(chat) ==
    /\ \E net \in Nets :
          LET out == set_report_chat_command(bot_data, chat, net)
          IN  /\ bot_data' = out.report_chats
              /\ promised' = IF net[1] THEN promised \cup {chat} ELSE promised
              /\ job' = [op |-> "set_report_chat_command", chat |-> chat,
                         sent |-> out.sent, raised |-> out.raised, accepted |-> net[1]]
    /\ UNCHANGED <<ADMIN_CHAT_ID, aggVars, convVars, storeVars>>

\* the job queue runs send_daily_report
DailyJob ==
    /\ \E net \in Nets :
          LET out == send_daily_report(ADMIN_CHAT_ID, bot_data, net)
          IN  job' = [op |-> "send_daily_report", chat |-> 0,
                      sent |-> out.sent, raised |-> out.raised, accepted |-> net[1]]
    /\ UNCHANGED <<ADMIN_CHAT_ID, bot_data, promised, aggVars, convVars, storeVars>>

NextJob == DailyJob \/ \E chat \in Chats : SetReport(chat)

SpecJob == InitJob /\ [][NextJob]_vars

-----------------------------------------------------------------------------
(* Claims about the daily job, checked under SpecJob *)

Fired == job.op = "send_daily_report"

\* int(ADMIN_CHAT_ID) succeeds
IsInteger(admin) == admin.kind = "int"

HasDestination(admin) == IsInteger(admin) /\ admin.val # 0

C26_RegisteredChatGetsDigest ==
    (Fired /\ job.accepted) =>
        \A chat \in promised :
            \E i \in 1..Len(job.sent) : job.sent[i] = Sent(chat, "digest")

-----------------------------------------------------------------------------
(* The credential store: USER_TOKENS_FILE and its read-modify-write         *)
(* mutations. A key of an entry is 0 when absent, 1 when it holds a value    *)
(* written earlier and 2 when it holds the value this run writes.            *)

Users == 1..NumUsers

\* tokens.get(user_id_str) of a user without entry
Absent == [present |-> FALSE, moysklad_token |-> 0, organization_name |-> 0,
           last_activity |-> 0, updated_at |-> 0]

\* {}
NoTokens == [u \in Users |-> Absent]

\* the file does not exist, holds a JSON object, or holds what json.load rejects
FileOf(kind, entries) == [kind |-> kind, entries |-> entries]

\* load_user_tokens: {} when the file does not exist and when open / json.load
\* raise (read_ok is FALSE when reading a well-formed file fails)
load_user_tokens(file, read_ok) ==
    IF file.kind = "json" /\ read_ok THEN file.entries ELSE NoTokens

\* what open(..., 'w') and json.dump can do: write the whole dict, fail to open
\* (the file stays as it is), or fail after the file was truncated
WriteOutcomes == {"written", "not_opened", "truncated"}

\* save_user_tokens: the file is rewritten wholesale; an exception is logged
\* and swallowed
save_user_tokens(file, tokens, outcome) ==
    IF outcome = "written" THEN FileOf("json", tokens)
    ELSE IF outcome = "truncated" THEN FileOf("corrupt", NoTokens)
    ELSE file

\* set_user_token(user_id, token, organization_name=...): kwargs with an empty
\* value are not stored
set_user_token(tokens, user_id, org) ==
    [tokens EXCEPT ![user_id] =
        [@ EXCEPT !.present = TRUE, !.moysklad_token = 2,
                  !.organization_name = IF org THEN 2 ELSE @,
                  !.updated_at = 2]]

\* delete_user_token: the token and the organization keys go, the entry stays
delete_user_token(tokens, user_id) ==
    IF tokens[user_id].present
    THEN [tokens EXCEPT ![user_id] = [@ EXCEPT !.moysklad_token = 0, !.organization_name = 0]]
    ELSE tokens

\* update_user_activity
update_user_activity(tokens, user_id) ==
    [tokens EXCEPT ![user_id] = [@ EXCEPT !.present = TRUE, !.last_activity = 2]]

StoreOps == {"set_user_token", "delete_user_token", "update_user_activity"}

Mutate(op, tokens, user_id, org) ==
    IF op = "set_user_token" THEN set_user_token(tokens, user_id, org)
    ELSE IF op = "delete_user_token" THEN delete_user_token(tokens, user_id)
    ELSE update_user_activity(tokens, user_id)

\* delete_user_token saves only when the user has an entry
Saves(op, tokens, user_id) == op # "delete_user_token" \/ tokens[user_id].present

\* a mutation that reads the file again right before it writes
FreshCopy(loaded, current) == current

\* 'tokens = load_user_tokens()' at the start of a mutation: the dict that is
\* changed and saved is the one loaded then, whatever the file holds by now
WorkingCopy(loaded, current) == loaded

\* entries a stored file can hold: none, one with a token, one without
StoredEntries ==
    {Absent,
     [present |-> TRUE, moysklad_token |-> 1, organization_name |-> 1,
      last_activity |-> 1, updated_at |-> 1],
     [present |-> TRUE, moysklad_token |-> 0, organization_name |-> 0,
      last_activity |-> 1, updated_at |-> 0]}

Files ==
    {FileOf("missing", NoTokens), FileOf("corrupt", NoTokens)}
    \cup {FileOf("json", e) : e \in [Users -> StoredEntries]}

IdleProc == [pc |-> "idle", op |-> "none", org |-> FALSE, read_ok |-> TRUE,
             tokens |-> NoTokens, overlapped |-> FALSE, saved |-> FALSE]

NoDone == [op |-> "none", user |-> 0, before |-> FileOf("missing", NoTokens),
           loaded |-> NoTokens, read_ok |-> TRUE, overlapped |-> FALSE, saved |-> FALSE]

InitStore ==
    /\ AggIdle
    /\ ConvInit
    /\ padYear = TRUE
    /\ ADMIN_CHAT_ID = Unset /\ bot_data = <<>> /\ promised = {} /\ job = NoJob
    /\ tokens_file \in Files
    /\ procs = [u \in Users |-> IdleProc]
    /\ done = NoDone

\* the session of user u enters a mutation and loads the file
Load(u) ==
    /\ procs[u].pc = "idle"
    /\ \E op \in StoreOps, read_ok \in BOOLEAN :
       \E org \in (IF op = "set_user_token" THEN BOOLEAN ELSE {FALSE}) :
          procs' = [procs EXCEPT ![u] =
                       [pc |-> "loaded", op |-> op, org |-> org, read_ok |-> read_ok,
                        tokens |-> load_user_tokens(tokens_file, read_ok),
                        overlapped |-> FALSE, saved |-> FALSE]]
    /\ UNCHANGED <<tokens_file, done, aggVars, convVars, ADMIN_CHAT_ID, bot_data, promised, job>>

\* the session of user u changes its dict and saves it
Save(u) ==
    /\ procs[u].pc = "loaded"
    /\ \E outcome \in WriteOutcomes :
       LET me     == procs[u]
           work   == WorkingCopy(me.tokens, load_user_tokens(tokens_file, TRUE))
           saves  == Saves(me.op, work, u)
       IN  /\ tokens_file' = IF saves
                             THEN save_user_tokens(tokens_file, Mutate(me.op, work, u, me.org), outcome)
                             ELSE tokens_file
           /\ procs' = [v \in Users |->
                          IF v = u THEN [procs[v] EXCEPT !.pc = "done",
                                                         !.saved = saves /\ outcome = "written"]
                          ELSE IF procs[v].pc = "loaded" /\ saves
                               THEN [procs[v] EXCEPT !.overlapped = TRUE]
                               ELSE procs[v]]
           /\ done' = [op |-> me.op, user |-> u, before |-> tokens_file,
                       loaded |-> me.tokens, read_ok |-> me.read_ok,
                       overlapped |-> me.overlapped,
                       saved |-> saves /\ outcome = "written"]
    /\ UNCHANGED <<aggVars, convVars, ADMIN_CHAT_ID, bot_data, promised, job>>

NextStore == \E u \in Users : Load(u) \/ Save(u)

SpecStore == InitStore /\ [][NextStore]_vars

-----------------------------------------------------------------------------
(* Claims about the credential store, checked under SpecStore *)

\* the entry of user v in the file
Stored(file, v) == IF file.kind = "json" THEN file.entries[v] ELSE Absent

\* C30: a mutation for one user that runs with no other mutation's write
\* between its load and its save leaves the stored entry of every other user
\* as it was, whatever reading the file gave (also a failed read).
C30_OtherEntriesUnchanged ==
    (done.op # "none" /\ ~done.overlapped) =>
        \A v \in Users \ {done.user} : Stored(tokens_file, v) = Stored(done.before, v)

\* C22: nothing guards the file between a mutation's load and its save. A
\* mutation that saves after another one wrote in between stores, for every
\* other user, the entry it loaded at its start and not the one written
\* meanwhile: the other mutation's update is lost though both completed.
C22_InterleavedSaveWritesStaleEntries ==
    (done.op # "none" /\ done.overlapped /\ done.saved) =>
        \A v \in Users \ {done.user} : Stored(tokens_file, v) = done.loaded[v]

\* both mutations read the file, wrote it and completed; user 1 set a token,
\* and the token of this run is not in the file
C22_Witness ==
    /\ \A u \in Users : procs[u].pc = "done" /\ procs[u].read_ok /\ procs[u].saved
    /\ procs[1].op = "set_user_token"
    /\ done.user = 2 /\ done.overlapped
    /\ Stored(tokens_file, 1).moysklad_token # 2

-----------------------------------------------------------------------------
(* The credential flow: the text a user sends while a credential is awaited *)
(* is cleaned and validated, and only then verified against the remote     *)
(* system with DebugMoySkladClient.is_token_valid.                           *)

\* shortest cleaned value the validator accepts
MIN_TOKEN_LENGTH == 50

\* A credential text is described by what the validator looks at: the number
\* of token characters, of separators between them, and of characters the
\* cleaning removes (whitespace, brackets).
Length(text) == text.body + text.seps + text.blanks

\* whitespace and bracket characters are stripped
CleanToken(text) == [text EXCEPT !.blanks = 0]

\* the parts the separators split the value into
Segments(text) == text.seps + 1

\* Credential Validator: a validated credential or a typed rejection
ValidateToken(text) ==
    LET token == CleanToken(text)
    IN  IF Length(token) < MIN_TOKEN_LENGTH THEN "TooShort"
        ELSE IF Segments(token) # 3 THEN "MalformedStructure"
        ELSE "Valid"

\* what requests.get(.../entity/company) can give: a response with a status
\* and a body, or an exception (timeout, connection failure)
Responses ==
    {[kind |-> "response", status |-> st, body |-> b] :
        st \in {HTTP_OK, 401, 403, 500}, b \in {"name", "no_name", "not_json"}}
    \cup {[kind |-> "exception", status |-> 0, body |-> "none"]}

\* a verification that asks again when the first answer is not a success
is_token_valid_retrying(remote) ==
    IF remote.kind = "response" /\ remote.status = HTTP_OK /\ remote.body # "not_json"
    THEN [calls |-> 1, valid |-> TRUE,
          text |-> IF remote.body = "name" THEN "org_name" ELSE "unknown"]
    ELSE [calls |-> 2, valid |-> FALSE, text |-> "error"]

\* DebugMoySkladClient.is_token_valid: one GET; 200 gives (True, name), with
\* the default name when the body has none; another status gives
\* (False, "error <status>"); an exception, also of response.json(), gives
\* (False, "error: ...")
is_token_valid(remote) ==
    IF remote.kind = "response" /\ remote.status = HTTP_OK /\ remote.body # "not_json"
    THEN [calls |-> 1, valid |-> TRUE,
          text |-> IF remote.body = "name" THEN "org_name" ELSE "unknown"]
    ELSE [calls |-> 1, valid |-> FALSE,
          text |-> IF remote.kind = "response" /\ remote.status # HTTP_OK
                   THEN "error_status" ELSE "error_exception"]

\* the texts a user sends: "ab.cd", values whose cleaned length is 49, 50 and
\* more, with 1 to 4 segments, bare or pasted with blanks and brackets
TokenTexts ==
    {[body |-> b, seps |-> s, blanks |-> k] :
        b \in {4, MIN_TOKEN_LENGTH - 3, MIN_TOKEN_LENGTH - 2, MIN_TOKEN_LENGTH + 8},
        s \in 0..3, k \in 0..2}

InitCred ==
    /\ AggIdle
    /\ ConvInit
    /\ padYear = TRUE
    /\ ADMIN_CHAT_ID = Unset /\ bot_data = <<>> /\ promised = {} /\ job = NoJob
    /\ tokens_file \in {FileOf("missing", NoTokens),
                        FileOf("json", [u \in Users |-> IF u = 1 THEN Absent
                                                        ELSE CHOOSE e \in StoredEntries : e.moysklad_token = 1])}
    /\ procs = <<>>
    /\ done = [op |-> "none"]

\* AwaitingCredential --(text)--> Idle on success, AwaitingCredential on any
\* failure: the text of user u is validated, a valid value is verified, a
\* verified one is stored
CredentialText(u) ==
    \E text \in TokenTexts :
        LET verdict == ValidateToken(text)
        IN  \E remote \in (IF verdict = "Valid" THEN Responses ELSE {[kind |-> "not_asked"]}) :
                LET check == IF verdict = "Valid" THEN is_token_valid(remote)
                             ELSE [calls |-> 0, valid |-> FALSE, text |-> "none"]
                IN  \E read_ok \in (IF check.valid THEN BOOLEAN ELSE {TRUE}),
                       outcome \in (IF check.valid THEN WriteOutcomes ELSE {"not_opened"}) :
                        LET tokens == set_user_token(load_user_tokens(tokens_file, read_ok), u,
                                                     check.text = "org_name")
                        IN  /\ result' = [op |-> "credential_text", user |-> u, text |-> text,
                                          verdict |-> verdict, calls |-> check.calls,
                                          valid |-> check.valid,
                                          reply |-> IF verdict # "Valid" THEN verdict ELSE check.text,
                                          state |-> IF check.valid THEN "Idle"
                                                    ELSE "AwaitingCredential"]
                            /\ tokens_file' = IF check.valid
                                              THEN save_user_tokens(tokens_file, tokens, outcome)
                                              ELSE tokens_file
                            /\ UNCHANGED <<ordersRemote, retailRemote, paymentsRemote, convVars,
                                           ADMIN_CHAT_ID, bot_data, promised, job, procs, done>>

NextCred == \E u \in Users : CredentialText(u)

SpecCred == InitCred /\ [][NextCred]_vars

-----------------------------------------------------------------------------
(* Claims about the credential flow, checked under SpecCred *)

\* C21: a credential text whose cleaned length is below 50 is rejected as
\* TooShort with no remote verification call; the remote check is called for
\* a value of cleaned length 50 or more in exactly 3 segments and for no
\* other, and then exactly once.
C21_ShortRejectedBeforeRemoteCheck ==
    result.op = "credential_text" =>
        LET cleaned == result.text.body + result.text.seps
            wellFormed == cleaned >= 50 /\ result.text.seps = 2
        IN  /\ cleaned < 50 => result.verdict = "TooShort" /\ result.calls = 0
            /\ wellFormed => result.calls = 1
            /\ ~wellFormed => result.calls = 0

\* a value of 3 segments pasted with blanks, 52 characters long and 49 when
\* cleaned, was rejected as TooShort and nothing was asked of the remote system
C21_Witness ==
    /\ result.op = "credential_text"
    /\ result.text = [body |-> 47, seps |-> 2, blanks |-> 2]
    /\ result.verdict = "TooShort"
    /\ result.calls = 0
    /\ result.state = "AwaitingCredential"

=============================================================================
